---------------------------- MODULE Spec2Model ----------------------------
(***************************************************************************)
(* FeliCa Standard secure session of nfc/tag/tt3_sony.py: the mutual       *)
(* authentication handshake, the encrypted command envelope and the        *)
(* session state they share.                                               *)
(*                                                                         *)
(* Byte strings are sequences of integers 0..255.  The DES block function  *)
(* itself comes from the pyDes library and is not part of the repository:  *)
(* it is represented by a keyed permutation of 8-byte blocks (with its     *)
(* inverse), while the chaining, the key schedule of two-key triple DES,   *)
(* the XOR, the padding and both MAC constructions are the repository's.   *)
(***************************************************************************)
EXTENDS Integers, Sequences, FiniteSets, TLC

\* ---------------------------------------------------------------- constants
BLOCK_SIZE == 8
DATA_BLOCK_SIZE == 16
PADDING_BLOCK_SIZE == 6

CMD_AUTH1 == 16
CMD_AUTH2 == 18
CMD_READ == 20
CMD_WRITE == 22
CMD_REGISTER_ISSUE_ID == 128
CMD_REGISTER_AREA == 130
CMD_REGISTER_SERVICE == 132
CMD_COMMIT_REGISTRATION == 142

STATUS_SUCCESS == 0

\* ------------------------------------------------------------------- bytes
\* The value an operator yields where the Python code raises an exception
\* that is not a Type3TagCommandError (ValueError, IndexError, OverflowError).
Raised == <<-1>>

IsRaised(x) == x = Raised

Zeros(n) == [i \in 1..n |-> 0]

Fill(v, n) == [i \in 1..n |-> v]

IV_ZEROS == Zeros(BLOCK_SIZE)

XOR_MASK == Fill(255, BLOCK_SIZE)

\* data[lo:hi] of Python (0-based, hi exclusive, clipped to the length); a
\* negative lo stands for a start before the first byte, as in data[-8:] of
\* data shorter than 8 bytes
Slice(data, lo, hi) ==
    LET h == IF hi > Len(data) THEN Len(data) ELSE hi
        l == IF lo < 0 THEN 0 ELSE lo
    IN  IF l >= h THEN <<>> ELSE SubSeq(data, l + 1, h)

\* data[lo:]
SliceFrom(data, lo) == Slice(data, lo, Len(data))

\* n.to_bytes(size, "little"); OverflowError when n does not fit
ToBytesLE(n, size) ==
    IF n < 0 \/ (size = 1 /\ n > 255) \/ (size = 2 /\ n > 65535)
    THEN Raised
    ELSE IF size = 1 THEN <<n>> ELSE <<n % 256, n \div 256>>

\* int.from_bytes(data, "little") for data of at most two bytes
FromBytesLE(data) ==
    IF Len(data) = 0 THEN 0
    ELSE IF Len(data) = 1 THEN data[1]
    ELSE data[1] + 256 * data[2]

\* x ^ y for hexadecimal digits x, y: NibbleXor[x + 1][y + 1]
NibbleXor ==
    <<<<0, 1, 2, 3, 4, 5, 6, 7, 8, 9, 10, 11, 12, 13, 14, 15>>,
      <<1, 0, 3, 2, 5, 4, 7, 6, 9, 8, 11, 10, 13, 12, 15, 14>>,
      <<2, 3, 0, 1, 6, 7, 4, 5, 10, 11, 8, 9, 14, 15, 12, 13>>,
      <<3, 2, 1, 0, 7, 6, 5, 4, 11, 10, 9, 8, 15, 14, 13, 12>>,
      <<4, 5, 6, 7, 0, 1, 2, 3, 12, 13, 14, 15, 8, 9, 10, 11>>,
      <<5, 4, 7, 6, 1, 0, 3, 2, 13, 12, 15, 14, 9, 8, 11, 10>>,
      <<6, 7, 4, 5, 2, 3, 0, 1, 14, 15, 12, 13, 10, 11, 8, 9>>,
      <<7, 6, 5, 4, 3, 2, 1, 0, 15, 14, 13, 12, 11, 10, 9, 8>>,
      <<8, 9, 10, 11, 12, 13, 14, 15, 0, 1, 2, 3, 4, 5, 6, 7>>,
      <<9, 8, 11, 10, 13, 12, 15, 14, 1, 0, 3, 2, 5, 4, 7, 6>>,
      <<10, 11, 8, 9, 14, 15, 12, 13, 2, 3, 0, 1, 6, 7, 4, 5>>,
      <<11, 10, 9, 8, 15, 14, 13, 12, 3, 2, 1, 0, 7, 6, 5, 4>>,
      <<12, 13, 14, 15, 8, 9, 10, 11, 4, 5, 6, 7, 0, 1, 2, 3>>,
      <<13, 12, 15, 14, 9, 8, 11, 10, 5, 4, 7, 6, 1, 0, 3, 2>>,
      <<14, 15, 12, 13, 10, 11, 8, 9, 6, 7, 4, 5, 2, 3, 0, 1>>,
      <<15, 14, 13, 12, 11, 10, 9, 8, 7, 6, 5, 4, 3, 2, 1, 0>>>>

\* a ^ b for bytes a, b
XorInt(a, b) ==
    16 * NibbleXor[(a \div 16) + 1][(b \div 16) + 1]
        + NibbleXor[(a % 16) + 1][(b % 16) + 1]

\* Faulty variant of xor_bytes: the lengths are not compared, the longer
\* input is cut to the shorter as zip does.
XorBytesUnchecked(a, b) ==
    [i \in 1..(IF Len(a) < Len(b) THEN Len(a) ELSE Len(b)) |-> XorInt(a[i], b[i])]

\* CryptoUtils.xor_bytes
xor_bytes(a, b) ==
    IF Len(a) # Len(b) THEN Raised
    ELSE [i \in 1..Len(a) |-> XorInt(a[i], b[i])]

\* ------------------------------------------------------------------ cipher
\* The block function of pyDes.des: a permutation of the 8-byte blocks for
\* every 8-byte key.
DesBlockEncrypt(block, key) ==
    [i \in 1..BLOCK_SIZE |->
        (5 * block[(i % BLOCK_SIZE) + 1] + key[i] + 1) % 256]

DesBlockDecrypt(block, key) ==
    [j \in 1..BLOCK_SIZE |->
        LET i == ((j + 6) % BLOCK_SIZE) + 1
        IN  (205 * (block[i] - key[i] + 511)) % 256]

RECURSIVE CbcEncrypt(_, _, _)
CbcEncrypt(data, key, prev) ==
    IF Len(data) = 0 THEN <<>>
    ELSE LET c == DesBlockEncrypt(xor_bytes(SubSeq(data, 1, BLOCK_SIZE), prev), key)
         IN  c \o CbcEncrypt(SliceFrom(data, BLOCK_SIZE), key, c)

RECURSIVE CbcDecrypt(_, _, _)
CbcDecrypt(data, key, prev) ==
    IF Len(data) = 0 THEN <<>>
    ELSE LET c == SubSeq(data, 1, BLOCK_SIZE)
         IN  xor_bytes(DesBlockDecrypt(c, key), prev)
                 \o CbcDecrypt(SliceFrom(data, BLOCK_SIZE), key, c)

\* CryptoUtils.encrypt_des: DES, CBC, zero IV.  pyDes raises ValueError for a
\* key that is not 8 bytes and for data that is not a multiple of 8 bytes.
encrypt_des(data, key) ==
    IF IsRaised(data) \/ IsRaised(key) THEN Raised
    ELSE IF Len(key) # BLOCK_SIZE \/ Len(data) % BLOCK_SIZE # 0 THEN Raised
    ELSE CbcEncrypt(data, key, IV_ZEROS)

\* CryptoUtils.decrypt_des
decrypt_des(data, key) ==
    IF IsRaised(data) \/ IsRaised(key) THEN Raised
    ELSE IF Len(key) # BLOCK_SIZE \/ Len(data) % BLOCK_SIZE # 0 THEN Raised
    ELSE CbcDecrypt(data, key, IV_ZEROS)

RECURSIVE EcbEde(_, _, _, _)
EcbEde(data, key1, key2, enc) ==
    IF Len(data) = 0 THEN <<>>
    ELSE LET b == SubSeq(data, 1, BLOCK_SIZE)
             x == IF enc
                  THEN DesBlockEncrypt(DesBlockDecrypt(DesBlockEncrypt(b, key1), key2), key1)
                  ELSE DesBlockDecrypt(DesBlockEncrypt(DesBlockDecrypt(b, key1), key2), key1)
         IN  x \o EcbEde(SliceFrom(data, BLOCK_SIZE), key1, key2, enc)

\* CryptoUtils.encrypt_3des: triple DES (ECB) under key1 + key2 + key1
encrypt_3des(data, key1, key2) ==
    IF IsRaised(data) \/ IsRaised(key1) \/ IsRaised(key2) THEN Raised
    ELSE IF Len(key1) + Len(key2) + Len(key1) # 3 * BLOCK_SIZE
            \/ Len(key1) # BLOCK_SIZE
            \/ Len(data) % BLOCK_SIZE # 0 THEN Raised
    ELSE EcbEde(data, key1, key2, TRUE)

\* CryptoUtils.decrypt_3des
decrypt_3des(data, key1, key2) ==
    IF IsRaised(data) \/ IsRaised(key1) \/ IsRaised(key2) THEN Raised
    ELSE IF Len(key1) + Len(key2) + Len(key1) # 3 * BLOCK_SIZE
            \/ Len(key1) # BLOCK_SIZE
            \/ Len(data) % BLOCK_SIZE # 0 THEN Raised
    ELSE EcbEde(data, key1, key2, FALSE)


\* ----------------------------------------------------------------- session
\* SessionState: the four fields FelicaStandard.__init__ creates.
Session(auth, tid, tkey, tnum) ==
    [authenticated |-> auth, transaction_id |-> tid,
     transaction_key |-> tkey, transaction_number |-> tnum]

\* What send_cmd_recv_rsp yields when the transport raises its own
\* Type3TagCommandError (timeout, malformed frame) instead of returning.
TransportFailure == <<-2>>

\* One call of send_cmd_recv_rsp
Call(code, data, send_idm) == [code |-> code, data |-> data, send_idm |-> send_idm]

\* The outcome of an operation: the session it leaves, the exception it
\* raises ("ok": none; "0x1001".."0x1009": Type3TagCommandError with that
\* code; "TransportError": the transport's Type3TagCommandError;
\* "ValueError", "Exception": any other exception), the value returned, the
\* transport calls made, the responses the transport returned and, when the
\* encrypted exchange ran, how it ended (env), what it returned (env_ret),
\* the decrypted response it verified and the application data the card put
\* in a response it sent (sent, in a list; none when it sent no response).
Outcome(s, exc, ret, calls) ==
    [s |-> s, exc |-> exc, ret |-> ret, calls |-> calls, received |-> <<>>,
     env |-> "none", env_ret |-> <<>>, response |-> <<>>, sent |-> <<>>]

\* The outcome x of an operation, ending with exc and returning ret instead
Ending(x, exc, ret) == [x EXCEPT !.exc = exc, !.ret = ret]

IsType3TagCommandError(exc) == exc \notin {"ok", "ValueError", "Exception"}

\* Faulty variant of _add_padding: aligned data gets a whole block of
\* padding.
AddPaddingAlways(data) ==
    data \o Fill(BLOCK_SIZE - (Len(data) % BLOCK_SIZE),
                 BLOCK_SIZE - (Len(data) % BLOCK_SIZE))

\* FelicaStandard._add_padding
_add_padding(data) ==
    IF Len(data) % BLOCK_SIZE = 0 THEN data
    ELSE LET pad_len == BLOCK_SIZE - (Len(data) % BLOCK_SIZE)
         IN  data \o Fill(pad_len, pad_len)

RECURSIVE MacChain(_, _)
MacChain(x, payload) ==
    IF IsRaised(x) \/ Len(payload) = 0 THEN x
    ELSE MacChain(encrypt_des(x, Slice(payload, 0, BLOCK_SIZE)),
                  SliceFrom(payload, BLOCK_SIZE))

\* Faulty variant of _calculate_command_mac: the seed counts the payload
\* without the 8 bytes of the MAC.
CommandMacWithoutMacLength(cmd_code, payload) ==
    LET length == 2 + Len(payload)
        lb     == ToBytesLE(length, 1)
        cb     == ToBytesLE(cmd_code, 1)
    IN  IF IsRaised(lb) \/ IsRaised(cb) THEN Raised
        ELSE MacChain(lb \o cb \o Zeros(6), payload)

\* Faulty variant of _calculate_command_mac: the length byte of the seed is
\* the length modulo 256.
CommandMacLengthWrapped(cmd_code, payload) ==
    LET length == 2 + Len(payload) + BLOCK_SIZE
        lb     == ToBytesLE(length % 256, 1)
        cb     == ToBytesLE(cmd_code, 1)
    IN  IF IsRaised(lb) \/ IsRaised(cb) THEN Raised
        ELSE MacChain(lb \o cb \o Zeros(6), payload)

\* FelicaStandard._calculate_command_mac
_calculate_command_mac(cmd_code, payload) ==
    LET length == 2 + Len(payload) + BLOCK_SIZE
        lb     == ToBytesLE(length, 1)
        cb     == ToBytesLE(cmd_code, 1)
    IN  IF IsRaised(lb) \/ IsRaised(cb) THEN Raised
        ELSE MacChain(lb \o cb \o Zeros(6), payload)

RECURSIVE MacUnchain(_, _)
MacUnchain(x, payload) ==
    IF IsRaised(x) \/ Len(payload) = 0 THEN x
    ELSE MacUnchain(decrypt_des(x, SliceFrom(payload, Len(payload) - BLOCK_SIZE)),
                    Slice(payload, 0, Len(payload) - BLOCK_SIZE))

\* Faulty variant of _check_packet_mac: the MAC is decrypted through the
\* blocks first to last.
CheckPacketMacForward(data, expected_response_code) ==
    IF IsRaised(data) THEN FALSE
    ELSE IF Len(data) % BLOCK_SIZE # 0 THEN FALSE
    ELSE IF Len(data) < BLOCK_SIZE THEN FALSE
    ELSE LET mac     == SliceFrom(data, Len(data) - BLOCK_SIZE)
             payload == Slice(data, 0, Len(data) - BLOCK_SIZE)
             RECURSIVE Forward(_, _)
             Forward(x, blocks) ==
                 IF IsRaised(x) \/ Len(blocks) = 0 THEN x
                 ELSE Forward(decrypt_des(x, Slice(blocks, 0, BLOCK_SIZE)),
                              SliceFrom(blocks, BLOCK_SIZE))
         IN  IF Len(payload) = 0 THEN FALSE
             ELSE LET x == Forward(mac, payload)
                      expected_length == Len(data) + 2
                  IN  /\ ~IsRaised(x)
                      /\ Len(x) >= 2
                      /\ x[1] = expected_length
                      /\ x[2] = expected_response_code

\* FelicaStandard._check_packet_mac
_check_packet_mac(data, expected_response_code) ==
    IF IsRaised(data) THEN FALSE
    ELSE IF Len(data) % BLOCK_SIZE # 0 THEN FALSE
    ELSE IF Len(data) < BLOCK_SIZE THEN FALSE
    ELSE LET mac     == SliceFrom(data, Len(data) - BLOCK_SIZE)
             payload == Slice(data, 0, Len(data) - BLOCK_SIZE)
         IN  IF Len(payload) = 0 THEN FALSE
             ELSE LET x == MacUnchain(mac, payload)
                      expected_length == Len(data) + 2
                  IN  /\ ~IsRaised(x)
                      /\ Len(x) >= 2
                      /\ x[1] = expected_length
                      /\ x[2] = expected_response_code

\* Faulty variant of _verify_encrypted_response: a response number equal to
\* the number that was sent is accepted.
VerifyAcceptsEqualNumber(s, response, cmd_code) ==
    IF ~_check_packet_mac(response, cmd_code + 1)
    THEN Outcome(s, "0x1004", <<>>, <<>>)
    ELSE LET response_number == FromBytesLE(Slice(response, 0, 2))
         IN  IF response_number < s.transaction_number
             THEN Outcome(s, "0x1003", <<>>, <<>>)
             ELSE IF Slice(response, 2, 8) # s.transaction_id
             THEN Outcome(s, "0x1003", <<>>, <<>>)
             ELSE Outcome([s EXCEPT !.transaction_number = response_number],
                          "ok", SliceFrom(response, 8), <<>>)

\* Faulty variant of _verify_encrypted_response: the response number is not
\* compared with the session's.
VerifyWithoutOrdering(s, response, cmd_code) ==
    IF ~_check_packet_mac(response, cmd_code + 1)
    THEN Outcome(s, "0x1004", <<>>, <<>>)
    ELSE IF Slice(response, 2, 8) # s.transaction_id
    THEN Outcome(s, "0x1003", <<>>, <<>>)
    ELSE Outcome([s EXCEPT !.transaction_number = FromBytesLE(Slice(response, 0, 2))],
                 "ok", SliceFrom(response, 8), <<>>)

\* Variant of _verify_encrypted_response that clears the authenticated flag
\* when a check fails.
VerifyInvalidating(s, response, cmd_code) ==
    IF ~_check_packet_mac(response, cmd_code + 1)
    THEN Outcome([s EXCEPT !.authenticated = FALSE], "0x1004", <<>>, <<>>)
    ELSE LET response_number == FromBytesLE(Slice(response, 0, 2))
         IN  IF response_number <= s.transaction_number
             THEN Outcome([s EXCEPT !.authenticated = FALSE], "0x1003", <<>>, <<>>)
             ELSE IF Slice(response, 2, 8) # s.transaction_id
             THEN Outcome([s EXCEPT !.authenticated = FALSE], "0x1003", <<>>, <<>>)
             ELSE Outcome([s EXCEPT !.transaction_number = response_number],
                          "ok", SliceFrom(response, 8), <<>>)

\* Faulty variant of _verify_encrypted_response: the response number is
\* stored before the transaction id is compared.
VerifyStoresNumberFirst(s, response, cmd_code) ==
    IF ~_check_packet_mac(response, cmd_code + 1)
    THEN Outcome(s, "0x1004", <<>>, <<>>)
    ELSE LET response_number == FromBytesLE(Slice(response, 0, 2))
         IN  IF response_number <= s.transaction_number
             THEN Outcome(s, "0x1003", <<>>, <<>>)
             ELSE IF Slice(response, 2, 8) # s.transaction_id
             THEN Outcome([s EXCEPT !.transaction_number = response_number],
                          "0x1003", <<>>, <<>>)
             ELSE Outcome([s EXCEPT !.transaction_number = response_number],
                          "ok", SliceFrom(response, 8), <<>>)

\* FelicaStandard._verify_encrypted_response
_verify_encrypted_response(s, response, cmd_code) ==
    IF ~_check_packet_mac(response, cmd_code + 1)
    THEN Outcome(s, "0x1004", <<>>, <<>>)
    ELSE LET response_number == FromBytesLE(Slice(response, 0, 2))
         IN  IF response_number <= s.transaction_number
             THEN Outcome(s, "0x1003", <<>>, <<>>)
             ELSE IF Slice(response, 2, 8) # s.transaction_id
             THEN Outcome(s, "0x1003", <<>>, <<>>)
             ELSE Outcome([s EXCEPT !.transaction_number = response_number],
                          "ok", SliceFrom(response, 8), <<>>)

\* ----------------------------------------------------------- the card side
\* bytes.hex(): two hexadecimal digits (0..15) for every byte
RECURSIVE Hex(_)
Hex(data) ==
    IF Len(data) = 0 THEN <<>>
    ELSE <<data[1] \div 16, data[1] % 16>> \o Hex(Tail(data))

\* The keys of the handshake: L = GSK xor idm, alpha = DES(USK, L),
\* beta = DES(L, alpha)
AuthKeysAlpha(L, alpha) == [L |-> L, alpha |-> alpha, beta |-> encrypt_des(L, alpha)]

AuthKeysL(user_service_key, L) == AuthKeysAlpha(L, encrypt_des(user_service_key, L))

AuthKeys(group_service_key, user_service_key, idm) ==
    AuthKeysL(user_service_key, xor_bytes(group_service_key, idm))

\* The card the transport talks to during a handshake: its keys, the
\* random_2 and transaction number it draws, the issue data it holds, and how
\* it answers AUTH1 and AUTH2 ("honest", or one of the deviations below).
Card(gsk, usk, random_2, number, auth1, auth2) ==
    [gsk |-> gsk, usk |-> usk, random_2 |-> random_2, number |-> number,
     auth1 |-> auth1, auth2 |-> auth2]

IssueId == <<160, 161, 162, 163, 164, 165, 166, 167>>

IssueParameter == <<176, 177, 178, 179, 180, 181, 182, 183>>

\* A byte string of the same length that differs from data in every byte
Corrupt(data) == [i \in 1..Len(data) |-> (data[i] + 1) % 256]

\* challenge_1A, the last 8 bytes of the AUTH1 command
Challenge1A(auth1_cmd) == SliceFrom(auth1_cmd, Len(auth1_cmd) - BLOCK_SIZE)

CardAuth1Deviate(card, honest) ==
    CASE card.auth1 = "honest"  -> honest
      [] card.auth1 = "bad_1B"  -> Corrupt(honest)
      [] card.auth1 = "short"   -> Slice(honest, 0, 8)
      [] card.auth1 = "short12" -> Slice(honest, 0, 12)
      [] card.auth1 = "long"    -> honest \o Zeros(BLOCK_SIZE)
      [] OTHER                  -> TransportFailure

CardAuth1Answer(card, k, c1A) ==
    CardAuth1Deviate(card,
        encrypt_3des(decrypt_3des(c1A, k.alpha, k.L), k.L, k.beta)
            \o encrypt_3des(card.random_2, k.L, k.beta))

\* send_cmd_recv_rsp(CMD_AUTH1, auth1_cmd, ...): the AUTH1 response,
\* challenge_1B + challenge_2A
CardAuth1Response(card, idm, auth1_cmd) ==
    CardAuth1Answer(card, AuthKeys(card.gsk, card.usk, idm), Challenge1A(auth1_cmd))

CardAuth2Deviate(card, plain, mac) ==
    CASE card.auth2 \in {"honest", "bad_id"} ->
            encrypt_des(plain \o mac, card.random_2)
      [] card.auth2 = "bad_mac" ->
            encrypt_des(plain \o Corrupt(mac), card.random_2)
      [] card.auth2 = "bad_length" ->
            Slice(encrypt_des(plain \o mac, card.random_2), 0, 7)
      [] OTHER -> TransportFailure

CardAuth2Mac(card, plain) ==
    CardAuth2Deviate(card, plain, _calculate_command_mac(CMD_AUTH2 + 1, plain))

CardAuth2Plain(card, echo) ==
    CardAuth2Mac(card,
        ToBytesLE(card.number, 2)
            \o (IF card.auth2 = "bad_id" THEN Corrupt(echo) ELSE echo)
            \o IssueId \o IssueParameter)

CardAuth2Answer(card, k, c1A) ==
    CardAuth2Plain(card, SliceFrom(decrypt_3des(c1A, k.alpha, k.L), 2))

\* send_cmd_recv_rsp(CMD_AUTH2, idm + challenge_2B, ...): the AUTH2 response,
\* encrypted under random_2.  The card echoes bytes 2..7 of the random_1 it
\* decrypted from challenge_1A.
CardAuth2Response(card, idm, auth1_cmd, auth2_cmd) ==
    CardAuth2Answer(card, AuthKeys(card.gsk, card.usk, idm), Challenge1A(auth1_cmd))

\* The card the transport talks to in an encrypted exchange: which
\* transaction number it answers with (relative to the one it received),
\* which application data, and how it deviates, if at all.
EnvCard(number, data, deviation) ==
    [number |-> number, data |-> data, deviation |-> deviation]

\* The application data of the card's answer; for a read command
\* (elements counted in byte 8 of the command plaintext) the status flags,
\* the block count and the blocks. A card may answer a read command with
\* half a block of data ("short") or with a count one too high ("count").
CardData(card, cmd_code, cmd_plain) ==
    CASE card.data = "status" -> <<1, 0>>
      [] card.data = "empty"  -> <<>>
      [] card.data = "one"    -> <<STATUS_SUCCESS>>
      [] card.data = "short" /\ cmd_code = CMD_READ ->
            <<STATUS_SUCCESS, 0, cmd_plain[9]>> \o Fill(17, BLOCK_SIZE)
      [] card.data = "count" /\ cmd_code = CMD_READ ->
            <<STATUS_SUCCESS, 0, cmd_plain[9] + 1>>
                \o Fill(17, DATA_BLOCK_SIZE * cmd_plain[9])
      [] OTHER ->
            IF cmd_code = CMD_READ
            THEN <<STATUS_SUCCESS, 0, cmd_plain[9]>>
                     \o Fill(17, DATA_BLOCK_SIZE * cmd_plain[9])
            ELSE <<STATUS_SUCCESS, 0, 5, 0>>

\* The transaction number the card answers a command numbered sent with
\* (two bytes: the number after 65535 is 0)
CardNumber(card, sent) ==
    CASE card.number = "same" -> sent
      [] card.number = "prev" -> (sent + 65535) % 65536
      [] card.number = "zero" -> 0
      [] card.number = "max"  -> 65535
      [] OTHER                -> (sent + 1) % 65536

CardEnvelopeDeviate(card, key, body, mac) ==
    CASE card.deviation \in {"honest", "bad_id"} -> encrypt_des(body \o mac, key)
      [] card.deviation = "bad_mac" -> encrypt_des(body \o Corrupt(mac), key)
      [] card.deviation = "bad_length" -> Slice(encrypt_des(body \o mac, key), 0, 7)
      [] OTHER -> TransportFailure

CardEnvelopeMac(card, key, cmd_code, body) ==
    CardEnvelopeDeviate(card, key, body, _calculate_command_mac(cmd_code + 1, body))

CardEnvelopeAnswer(card, key, tid, cmd_code, cmd_plain) ==
    CardEnvelopeMac(card, key, cmd_code,
        _add_padding(
            ToBytesLE(CardNumber(card, FromBytesLE(Slice(cmd_plain, 0, 2))), 2)
                \o (IF card.deviation = "bad_id" THEN Corrupt(tid) ELSE tid)
                \o CardData(card, cmd_code, cmd_plain)))

\* send_cmd_recv_rsp(cmd_code, encrypted_data, ...) after authentication:
\* the card decrypts the command under the transaction key and answers.
CardEnvelopeResponse(card, key, tid, cmd_code, encrypted_data) ==
    CardEnvelopeAnswer(card, key, tid, cmd_code, decrypt_des(encrypted_data, key))

\* ------------------------------------------------------- encrypted exchange
\* The outcome x of the encrypted exchange, recorded as such
Exchanged(x, response) ==
    [x EXCEPT !.env = x.exc, !.env_ret = x.ret, !.response = response]

\* The outcome x, with the transport calls made
WithCalls(x, calls) == [x EXCEPT !.calls = calls]

\* The outcome x, with the responses the transport returned
WithReceived(x, received) == [x EXCEPT !.received = received]

\* The outcome x, with the application data of the response the card sent
WithSent(x, data) ==
    [x EXCEPT !.sent = IF x.received = <<>> THEN <<>> ELSE <<data>>]

\* _encryption_exchange, lines 729-730: the decrypted response is verified
ExchangeVerify(s1, cmd_code, calls, response) ==
    IF IsRaised(response)
    THEN Exchanged(Outcome(s1, "Exception", <<>>, calls), <<>>)
    ELSE Exchanged(WithCalls(_verify_encrypted_response(s1, response, cmd_code),
                             calls),
                   response)

\* Faulty variant of ExchangeReceive: the command is sent a second time when
\* the transport fails.
ExchangeReceiveRetrying(s1, cmd_code, calls, rsp) ==
    IF rsp = TransportFailure
    THEN Exchanged(Outcome(s1, "TransportError", <<>>, calls \o calls), <<>>)
    ELSE WithReceived(
             ExchangeVerify(s1, cmd_code, calls, decrypt_des(rsp, s1.transaction_key)),
             <<rsp>>)

\* _encryption_exchange, lines 724-727: the transport returns or fails
ExchangeReceive(s1, cmd_code, calls, rsp) ==
    IF rsp = TransportFailure
    THEN Exchanged(Outcome(s1, "TransportError", <<>>, calls), <<>>)
    ELSE WithReceived(
             ExchangeVerify(s1, cmd_code, calls, decrypt_des(rsp, s1.transaction_key)),
             <<rsp>>)

\* _encryption_exchange, lines 723-724: the command is encrypted and sent
ExchangeSend(s1, cmd_code, card, encrypted_data) ==
    IF IsRaised(encrypted_data)
    THEN Exchanged(Outcome(s1, "Exception", <<>>, <<>>), <<>>)
    ELSE WithSent(
             ExchangeReceive(s1, cmd_code, <<Call(cmd_code, encrypted_data, FALSE)>>,
                 CardEnvelopeResponse(card, s1.transaction_key, s1.transaction_id,
                                      cmd_code, encrypted_data)),
             CardData(card, cmd_code, decrypt_des(encrypted_data, s1.transaction_key)))

\* _encryption_exchange, line 720: payload_with_mac, the plaintext handed to
\* encryption
ExchangePlaintext(payload, mac) ==
    IF IsRaised(payload) \/ IsRaised(mac) THEN Raised ELSE payload \o mac

\* _encryption_exchange, lines 719-723: the MAC is appended
ExchangeMac(s1, cmd_code, card, payload, mac) ==
    ExchangeSend(s1, cmd_code, card,
        encrypt_des(ExchangePlaintext(payload, mac), s1.transaction_key))

\* _encryption_exchange, lines 708-716: the payload is built and padded
ExchangePayload(s1, cmd_code, card, payload) ==
    ExchangeMac(s1, cmd_code, card, payload, _calculate_command_mac(cmd_code, payload))

\* Faulty variant of ExchangePadded: every payload carries the number 0.
ExchangePaddedUnnumbered(number, id, data) == _add_padding(ToBytesLE(0, 2) \o id \o data)

\* _encryption_exchange, lines 708-716: the payload with the transaction
\* number and id in front, padded
ExchangePadded(number, id, data) == _add_padding(ToBytesLE(number, 2) \o id \o data)

\* _encryption_exchange, lines 703-706: the number is incremented and checked
ExchangeNumbered(s1, cmd_code, data, card) ==
    IF s1.transaction_number >= 65535
    THEN Exchanged(Outcome(s1, "0x1005", <<>>, <<>>), <<>>)
    ELSE ExchangePayload(s1, cmd_code, card,
             ExchangePadded(s1.transaction_number, s1.transaction_id, data))

\* Faulty variant of _encryption_exchange: transaction_number is not
\* incremented before the command is built.
ExchangeWithoutIncrement(s, cmd_code, data, card) ==
    IF ~s.authenticated
    THEN Exchanged(Outcome(s, "0x1001", <<>>, <<>>), <<>>)
    ELSE ExchangeNumbered(s, cmd_code, data, card)

\* Faulty variant of _encryption_exchange: the authenticated flag is not
\* looked at.
ExchangeWithoutAuthCheck(s, cmd_code, data, card) ==
    ExchangeNumbered([s EXCEPT !.transaction_number = s.transaction_number + 1],
                     cmd_code, data, card)

\* FelicaStandard._encryption_exchange; card is the card the transport
\* reaches if it is called.
_encryption_exchange(s, cmd_code, data, card) ==
    IF ~s.authenticated
    THEN Exchanged(Outcome(s, "0x1001", <<>>, <<>>), <<>>)
    ELSE ExchangeNumbered([s EXCEPT !.transaction_number = s.transaction_number + 1],
                          cmd_code, data, card)

\* --------------------------------------------------------------- handshake
\* FelicaStandard._build_auth1_command
RECURSIVE CodesLE(_)
CodesLE(codes) ==
    IF Len(codes) = 0 THEN <<>>
    ELSE IF IsRaised(ToBytesLE(codes[1], 2)) THEN Raised
    ELSE IF IsRaised(CodesLE(Tail(codes))) THEN Raised
    ELSE ToBytesLE(codes[1], 2) \o CodesLE(Tail(codes))

_build_auth1_command(areas, services, challenge_1A) ==
    IF \/ IsRaised(ToBytesLE(Len(areas), 1))
       \/ IsRaised(CodesLE(areas))
       \/ IsRaised(ToBytesLE(Len(services), 1))
       \/ IsRaised(CodesLE(services))
       \/ IsRaised(challenge_1A)
    THEN Raised
    ELSE ToBytesLE(Len(areas), 1) \o CodesLE(areas)
             \o ToBytesLE(Len(services), 1) \o CodesLE(services) \o challenge_1A

\* Faulty variant of ProcessAuth2Verified: the echoed transaction id is not
\* compared.
ProcessAuth2WithoutIdCheck(s2, rsp_plain) ==
    Outcome([s2 EXCEPT !.authenticated = TRUE], "ok",
            <<Hex(Slice(rsp_plain, 8, 16)), Hex(Slice(rsp_plain, 16, 24))>>,
            <<>>)

\* _process_auth2_response, lines 675-687: the number is stored, the echoed
\* transaction id compared, the session marked authenticated
ProcessAuth2Verified(s2, rsp_plain) ==
    IF Slice(rsp_plain, 2, 8) # s2.transaction_id
    THEN Outcome(s2, "0x1001", <<>>, <<>>)
    ELSE Outcome([s2 EXCEPT !.authenticated = TRUE], "ok",
                 <<Hex(Slice(rsp_plain, 8, 16)), Hex(Slice(rsp_plain, 16, 24))>>,
                 <<>>)

\* _process_auth2_response, lines 668-676: the response is decrypted and its
\* MAC checked
ProcessAuth2Plain(s1, rsp_plain) ==
    IF IsRaised(rsp_plain) THEN Outcome(s1, "Exception", <<>>, <<>>)
    ELSE IF ~_check_packet_mac(rsp_plain, CMD_AUTH2 + 1)
    THEN Outcome(s1, "0x1004", <<>>, <<>>)
    ELSE ProcessAuth2Verified(
             [s1 EXCEPT !.transaction_number = FromBytesLE(Slice(rsp_plain, 0, 2))],
             rsp_plain)

ProcessAuth2Keyed(s1, auth2_rsp) ==
    ProcessAuth2Plain(s1, decrypt_des(auth2_rsp, s1.transaction_key))

\* Faulty variant of _process_auth2_response: the transaction id is taken
\* from the first six bytes of random_1.
ProcessAuth2WrongId(s, auth2_rsp, random_1, random_2) ==
    ProcessAuth2Keyed([s EXCEPT !.transaction_id = Slice(random_1, 0, 6),
                                !.transaction_key = random_2],
                      auth2_rsp)

\* FelicaStandard._process_auth2_response
_process_auth2_response(s, auth2_rsp, random_1, random_2) ==
    ProcessAuth2Keyed([s EXCEPT !.transaction_id = SliceFrom(random_1, 2),
                                !.transaction_key = random_2],
                      auth2_rsp)

\* Faulty variant of AuthExcept: the exception is left as it is.
AuthExceptUnchanged(p, calls) == [p EXCEPT !.calls = calls]

\* The outcome p of the code in mutual_authentication's try block, after the
\* except clause: an exception that is no Type3TagCommandError becomes 0x1001
AuthExcept(p, calls) ==
    [p EXCEPT !.exc = IF p.exc = "Exception" THEN "0x1001" ELSE p.exc,
              !.calls = calls]

\* mutual_authentication, lines 633-636: the AUTH2 response
AuthReceive2(s, random_1, random_2, calls, auth1_rsp, auth2_rsp) ==
    IF auth2_rsp = TransportFailure
    THEN WithReceived(Outcome(s, "TransportError", <<>>, calls), <<auth1_rsp>>)
    ELSE WithReceived(
             AuthExcept(_process_auth2_response(s, auth2_rsp, random_1, random_2),
                        calls),
             <<auth1_rsp, auth2_rsp>>)

\* mutual_authentication, lines 627-633: challenge_2B is sent
AuthSend2(s, idm, random_1, card, call1, auth1_rsp, random_2, challenge_2B) ==
    IF IsRaised(challenge_2B)
    THEN WithReceived(Outcome(s, "0x1001", <<>>, <<call1>>), <<auth1_rsp>>)
    ELSE AuthReceive2(s, random_1, random_2,
                      <<call1, Call(CMD_AUTH2, idm \o challenge_2B, FALSE)>>,
                      auth1_rsp,
                      CardAuth2Response(card, idm, call1.data, idm \o challenge_2B))

\* mutual_authentication, line 626: random_2 is decrypted
AuthRandom2(s, idm, random_1, card, k, call1, auth1_rsp, random_2) ==
    AuthSend2(s, idm, random_1, card, call1, auth1_rsp, random_2,
              encrypt_3des(random_2, k.alpha, k.L))

\* Faulty variant of AuthReceive1: challenge_1B is not compared.
AuthReceive1WithoutCheck(s, idm, random_1, card, k, call1, auth1_rsp) ==
    IF auth1_rsp = TransportFailure
    THEN Outcome(s, "TransportError", <<>>, <<call1>>)
    ELSE AuthRandom2(s, idm, random_1, card, k, call1, auth1_rsp,
                     decrypt_3des(Slice(auth1_rsp, 8, 16), k.L, k.beta))

\* mutual_authentication, lines 614-626: the AUTH1 response
AuthReceive1(s, idm, random_1, card, k, call1, auth1_rsp) ==
    IF auth1_rsp = TransportFailure
    THEN Outcome(s, "TransportError", <<>>, <<call1>>)
    ELSE IF encrypt_3des(random_1, k.L, k.beta) # Slice(auth1_rsp, 0, 8)
    THEN WithReceived(Outcome(s, "0x1001", <<>>, <<call1>>), <<auth1_rsp>>)
    ELSE AuthRandom2(s, idm, random_1, card, k, call1, auth1_rsp,
                     decrypt_3des(Slice(auth1_rsp, 8, 16), k.L, k.beta))

\* mutual_authentication, lines 609-614: the AUTH1 command is sent
AuthSend1(s, idm, random_1, card, k, auth1_cmd) ==
    IF IsRaised(auth1_cmd) THEN Outcome(s, "0x1001", <<>>, <<>>)
    ELSE AuthReceive1(s, idm, random_1, card, k, Call(CMD_AUTH1, auth1_cmd, TRUE),
                      CardAuth1Response(card, idm, auth1_cmd))

\* mutual_authentication, lines 602-609
AuthChallenge(s, idm, areas, services, random_1, card, k) ==
    AuthSend1(s, idm, random_1, card, k,
              _build_auth1_command(areas, services,
                                   encrypt_3des(random_1, k.alpha, k.L)))

\* FelicaStandard.mutual_authentication; random_1 is what random.randbytes
\* returns, card the card the transport reaches
mutual_authentication(s, idm, areas, services, group_service_key, user_service_key, random_1, card) ==
    AuthChallenge(s, idm, areas, services, random_1, card,
                  AuthKeys(group_service_key, user_service_key, idm))

\* -------------------------------------------------------------- operations
\* Faulty variant of KeyChain: the keys are applied last to first.
RECURSIVE KeyChainReversed(_, _)
KeyChainReversed(current_key, keys) ==
    IF Len(keys) = 0 THEN current_key
    ELSE KeyChainReversed(encrypt_des(current_key, keys[Len(keys)]),
                          SubSeq(keys, 1, Len(keys) - 1))

\* generate_service_keys, lines 129-130 and 135-136: the running key is
\* encrypted under each key of keys in turn
RECURSIVE KeyChain(_, _)
KeyChain(current_key, keys) ==
    IF Len(keys) = 0 THEN current_key
    ELSE KeyChain(encrypt_des(current_key, keys[1]), Tail(keys))

\* generate_service_keys, lines 132-140: the tuple returned
ServiceKeys(group_service_key, user_service_key) ==
    IF IsRaised(group_service_key) \/ IsRaised(user_service_key) THEN Raised
    ELSE <<group_service_key, user_service_key>>

\* KeyManager.generate_service_keys
generate_service_keys(system_key, area_keys, service_keys) ==
    ServiceKeys(KeyChain(system_key, area_keys),
                KeyChain(KeyChain(system_key, area_keys), service_keys))

\* generate_package, lines 162-163: the MAC is appended, the whole encrypted
PackageWithMac(package_plain, package_key, full) ==
    IF IsRaised(full) THEN Raised
    ELSE encrypt_des(package_plain \o SliceFrom(full, Len(full) - BLOCK_SIZE),
                     package_key)

\* Faulty variant of generate_package: the MAC is computed under the package
\* key itself.
PackageMacUnderPackageKey(package_plain, package_key) ==
    IF IsRaised(package_plain) THEN Raised
    ELSE IF Len(package_plain) % BLOCK_SIZE # 0 THEN Raised
    ELSE PackageWithMac(package_plain, package_key,
             encrypt_des(package_plain, package_key))

\* KeyManager.generate_package
generate_package(package_plain, package_key) ==
    IF IsRaised(package_plain) THEN Raised
    ELSE IF Len(package_plain) % BLOCK_SIZE # 0 THEN Raised
    ELSE PackageWithMac(package_plain, package_key,
             encrypt_des(package_plain, xor_bytes(package_key, XOR_MASK)))

\* One element <<index, number>> of _elements_to_bytes
ElementBytes(index, number) ==
    IF index >= 16 THEN Raised
    ELSE IF IsRaised(ToBytesLE(number, 1)) THEN Raised
    ELSE <<128 + index>> \o ToBytesLE(number, 1)

\* FelicaStandard._elements_to_bytes
RECURSIVE _elements_to_bytes(_)
_elements_to_bytes(elements) ==
    IF Len(elements) = 0 THEN <<>>
    ELSE IF IsRaised(ElementBytes(elements[1][1], elements[1][2])) THEN Raised
    ELSE IF IsRaised(_elements_to_bytes(Tail(elements))) THEN Raised
    ELSE ElementBytes(elements[1][1], elements[1][2])
             \o _elements_to_bytes(Tail(elements))

\* The concatenation of byte strings, Raised if one of them is
RECURSIVE Concat(_)
Concat(seqs) ==
    IF Len(seqs) = 0 THEN <<>>
    ELSE IF IsRaised(seqs[1]) \/ IsRaised(Concat(Tail(seqs))) THEN Raised
    ELSE seqs[1] \o Concat(Tail(seqs))

\* The try/except that ends every operation: the status flag of an accepted
\* response, and any exception but Type3TagCommandError turned into the
\* operation's own code.
StatusChecked(x, op_error) ==
    IF x.exc = "Exception" THEN Ending(x, op_error, <<>>)
    ELSE IF x.exc # "ok" THEN x
    ELSE IF Len(x.ret) < 2 THEN Ending(x, op_error, <<>>)
    ELSE IF x.ret[1] # STATUS_SUCCESS THEN Ending(x, op_error, <<>>)
    ELSE x

\* An operation that returns nothing
ReturnsNone(x) == Ending(x, x.exc, <<>>)

\* An operation that returns the count in bytes 2-3 of the response. Returned
\* values are held as lists of integer lists, the int n as <<<<n>>>>.
ReturnsCount(x) ==
    IF x.exc # "ok" THEN x
    ELSE Ending(x, "ok", << <<FromBytesLE(Slice(x.ret, 2, 4))>> >>)

\* read_blocks, lines 811-818
ReadResult(elements, x) ==
    IF x.exc # "ok" THEN x
    ELSE IF Len(x.ret) < 3 THEN Ending(x, "0x1002", <<>>)
    ELSE IF x.ret[3] # Len(elements) THEN Ending(x, "0x1006", <<>>)
    ELSE Ending(x, "ok",
                [i \in 1..Len(elements) |->
                    Slice(SliceFrom(x.ret, 3), (i - 1) * DATA_BLOCK_SIZE,
                          i * DATA_BLOCK_SIZE)])

ReadCommand(s, elements, cmd, card) ==
    IF IsRaised(cmd) THEN Outcome(s, "ValueError", <<>>, <<>>)
    ELSE ReadResult(elements,
             StatusChecked(_encryption_exchange(s, CMD_READ, cmd, card), "0x1002"))

\* FelicaStandard.read_blocks
read_blocks(s, elements, card) ==
    IF Len(elements) = 0 THEN Outcome(s, "ValueError", <<>>, <<>>)
    ELSE ReadCommand(s, elements,
             Concat(<<ToBytesLE(Len(elements), 1), _elements_to_bytes(elements)>>),
             card)

WriteCommand(s, cmd, card) ==
    IF IsRaised(cmd) THEN Outcome(s, "ValueError", <<>>, <<>>)
    ELSE ReturnsNone(
             StatusChecked(_encryption_exchange(s, CMD_WRITE, cmd, card), "0x1002"))

\* Faulty variant of write_blocks: the size of the data blocks is not looked
\* at.
WriteBlocksWithoutSizeCheck(s, elements_data, card) ==
    IF Len(elements_data) = 0 THEN Outcome(s, "ValueError", <<>>, <<>>)
    ELSE WriteCommand(s,
             Concat(<<ToBytesLE(Len(elements_data), 1),
                      _elements_to_bytes(
                          [i \in 1..Len(elements_data) |-> elements_data[i][1]]),
                      Concat([i \in 1..Len(elements_data) |-> elements_data[i][2]])>>),
             card)

\* FelicaStandard.write_blocks; elements_data is the dictionary as the
\* sequence of its items <<element, data>>
write_blocks(s, elements_data, card) ==
    IF Len(elements_data) = 0 THEN Outcome(s, "ValueError", <<>>, <<>>)
    ELSE IF \E i \in 1..Len(elements_data) :
                Len(elements_data[i][2]) # DATA_BLOCK_SIZE
    THEN Outcome(s, "ValueError", <<>>, <<>>)
    ELSE WriteCommand(s,
             Concat(<<ToBytesLE(Len(elements_data), 1),
                      _elements_to_bytes(
                          [i \in 1..Len(elements_data) |-> elements_data[i][1]]),
                      Concat([i \in 1..Len(elements_data) |-> elements_data[i][2]])>>),
             card)

\* bytes.fromhex of a string given as its hexadecimal digits
RECURSIVE FromHex(_)
FromHex(digits) ==
    IF Len(digits) = 0 THEN <<>>
    ELSE IF Len(digits) = 1 THEN Raised
    ELSE IF IsRaised(FromHex(SliceFrom(digits, 2))) THEN Raised
    ELSE <<16 * digits[1] + digits[2]>> \o FromHex(SliceFrom(digits, 2))

\* A provisioning command: the package is built before the try block, and
\* the exchange ends with the operation's own error code
Provision(s, cmd_code, head, package, trailer, op_error, card) ==
    IF IsRaised(head) \/ IsRaised(package)
    THEN Outcome(s, "ValueError", <<>>, <<>>)
    ELSE StatusChecked(
             _encryption_exchange(s, cmd_code, head \o package \o trailer, card),
             op_error)

\* FelicaStandard.register_issue_id
register_issue_id(s, system_code, key_version, area0_key, issue_id, issue_parameter, package_key, card) ==
    IF \/ Len(system_code) # 4
       \/ Len(area0_key) # BLOCK_SIZE
       \/ Len(issue_id) # BLOCK_SIZE
       \/ Len(issue_parameter) # BLOCK_SIZE
    THEN Outcome(s, "ValueError", <<>>, <<>>)
    ELSE ReturnsCount(
             Provision(s, CMD_REGISTER_ISSUE_ID, issue_id \o issue_parameter,
                 generate_package(
                     Concat(<<FromHex(system_code), ToBytesLE(key_version, 2),
                              area0_key, Zeros(4)>>),
                     package_key),
                 <<>>, "0x1009", card))

\* Faulty variant of register_area: the trailer has five bytes 0x06.
RegisterAreaShortTrailer(s, area_code, service_code_range, size, key_version, area_key, package_key, card) ==
    IF area_code # service_code_range[1] \/ Len(area_key) # BLOCK_SIZE
    THEN Outcome(s, "ValueError", <<>>, <<>>)
    ELSE ReturnsNone(
             Provision(s, CMD_REGISTER_AREA, ToBytesLE(area_code, 2),
                 generate_package(
                     Concat(<<ToBytesLE(service_code_range[1], 2),
                              ToBytesLE(service_code_range[2], 2),
                              ToBytesLE(size, 2), ToBytesLE(key_version, 2),
                              area_key>>),
                     package_key),
                 Fill(6, PADDING_BLOCK_SIZE - 1), "0x1008", card))

\* FelicaStandard.register_area
register_area(s, area_code, service_code_range, size, key_version, area_key, package_key, card) ==
    IF area_code # service_code_range[1] \/ Len(area_key) # BLOCK_SIZE
    THEN Outcome(s, "ValueError", <<>>, <<>>)
    ELSE ReturnsNone(
             Provision(s, CMD_REGISTER_AREA, ToBytesLE(area_code, 2),
                 generate_package(
                     Concat(<<ToBytesLE(service_code_range[1], 2),
                              ToBytesLE(service_code_range[2], 2),
                              ToBytesLE(size, 2), ToBytesLE(key_version, 2),
                              area_key>>),
                     package_key),
                 Fill(6, PADDING_BLOCK_SIZE), "0x1008", card))

\* Faulty variant of register_service: the service code is written
\* high byte first in the package plaintext.
RegisterServiceCodeReversed(s, service_code, size, key_version, service_key, package_key, card) ==
    IF Len(service_key) # BLOCK_SIZE THEN Outcome(s, "ValueError", <<>>, <<>>)
    ELSE ReturnsCount(
             Provision(s, CMD_REGISTER_SERVICE, ToBytesLE(service_code, 2),
                 generate_package(
                     Concat(<<<<service_code \div 256, service_code % 256>>, Zeros(2),
                              ToBytesLE(size, 2), ToBytesLE(key_version, 2),
                              service_key>>),
                     package_key),
                 Fill(6, PADDING_BLOCK_SIZE), "0x1007", card))

\* FelicaStandard.register_service
register_service(s, service_code, size, key_version, service_key, package_key, card) ==
    IF Len(service_key) # BLOCK_SIZE THEN Outcome(s, "ValueError", <<>>, <<>>)
    ELSE ReturnsCount(
             Provision(s, CMD_REGISTER_SERVICE, ToBytesLE(service_code, 2),
                 generate_package(
                     Concat(<<ToBytesLE(service_code, 2), Zeros(2),
                              ToBytesLE(size, 2), ToBytesLE(key_version, 2),
                              service_key>>),
                     package_key),
                 Fill(6, PADDING_BLOCK_SIZE), "0x1007", card))

\* FelicaStandard.commit_registration
commit_registration(s, card) ==
    ReturnsNone(
        StatusChecked(_encryption_exchange(s, CMD_COMMIT_REGISTRATION, <<>>, card),
                      "0x1002"))

\* Faulty variant of reset_authentication: transaction_number is kept.
ResetKeepsNumber(s) ==
    Outcome([s EXCEPT !.authenticated = FALSE, !.transaction_id = <<>>,
                      !.transaction_key = <<>>],
            "ok", <<>>, <<>>)

\* FelicaStandard.reset_authentication
reset_authentication(s) ==
    Outcome([s EXCEPT !.authenticated = FALSE, !.transaction_id = <<>>,
                      !.transaction_key = <<>>, !.transaction_number = 0],
            "ok", <<>>, <<>>)

\* ------------------------------------------------------------------ inputs
\* Bound on the encrypted exchanges that advance transaction_number after a
\* handshake or reset has set it.
MaxOps == 3

\* self.idm, from the card's activation response
Idm == <<1, 2, 3, 4, 5, 6, 7, 8>>

CardGSK == <<17, 34, 51, 68, 85, 102, 119, 136>>

CardUSK == <<8, 7, 6, 5, 4, 3, 2, 1>>

\* <<group_service_key, user_service_key>> a caller may pass: the card's,
\* a wrong group key, a user key of the wrong size
KeyPairs ==
    {<<CardGSK, CardUSK>>, <<Corrupt(CardGSK), CardUSK>>, <<CardGSK, <<1, 2, 3>>>>}

\* <<areas, services>> a caller may pass; 70000 does not fit two bytes
AuthArgs == {<< <<0>>, <<9, 10>> >>, << <<70000>>, <<>> >>}

\* values random.randbytes(8) may return
Randoms == {<<11, 12, 13, 14, 15, 16, 17, 18>>, <<21, 22, 23, 24, 25, 26, 27, 28>>}

CardRandoms == {<<31, 32, 33, 34, 35, 36, 37, 38>>, <<41, 42, 43, 44, 45, 46, 47, 48>>}

\* transaction numbers a card may start a session with
CardNumbers == {0, 65533, 65534}

HandshakeCards ==
    {Card(CardGSK, CardUSK, r2, n, "honest", "honest") :
        r2 \in CardRandoms, n \in CardNumbers}
    \cup {Card(CardGSK, CardUSK, <<31, 32, 33, 34, 35, 36, 37, 38>>, 65533, a1, "honest") :
        a1 \in {"bad_1B", "short", "short12", "long", "timeout"}}
    \cup {Card(CardGSK, CardUSK, <<41, 42, 43, 44, 45, 46, 47, 48>>, 65533, "honest", a2) :
        a2 \in {"bad_mac", "bad_id", "bad_length", "timeout"}}

EnvCards ==
    {EnvCard(n, "ok", "honest") : n \in {"next", "same", "prev", "zero", "max"}}
    \cup {EnvCard("next", d, "honest") :
            d \in {"status", "empty", "one", "short", "count"}}
    \cup {EnvCard("next", "ok", dev) :
            dev \in {"bad_id", "bad_mac", "bad_length", "timeout"}}

Key8 == <<201, 202, 203, 204, 205, 206, 207, 208>>

PackageKey == <<101, 102, 103, 104, 105, 106, 107, 108>>

ReadArgs == {<<>>, << <<0, 0>> >>, << <<1, 5>>, <<0, 1>> >>, << <<16, 0>> >>}

WriteArgs ==
    {<<>>,
     << << <<0, 0>>, Fill(34, DATA_BLOCK_SIZE) >> >>,
     << << <<0, 0>>, Fill(34, DATA_BLOCK_SIZE - 1) >> >>,
     << << <<16, 0>>, Fill(34, DATA_BLOCK_SIZE) >> >>}

\* Bound on the number of blocks of one write
MaxBlocks == 13

\* A dictionary of n blocks of service 0, numbered from 0
BlocksToWrite(n) == [i \in 1..n |-> << <<0, i - 1>>, Fill(34, DATA_BLOCK_SIZE) >>]

\* The long writes: 12 blocks and more
LongWriteArgs == {BlocksToWrite(n) : n \in 12..MaxBlocks}

\* <<system_code, key_version, area0_key, issue_id, issue_parameter, package_key>>
IssueArgs ==
    {<< <<1, 2, 15, 14>>, 1, k, IssueId, IssueParameter, PackageKey >> :
        k \in {Key8, Slice(Key8, 0, 7)}}
    \cup {<< <<1, 2, 15, 14>>, 1, Key8, Slice(IssueId, 0, 7), IssueParameter,
             PackageKey >>,
          << <<1, 2, 15, 14>>, 1, Key8, IssueId, IssueParameter \o <<0>>,
             PackageKey >>,
          << <<1, 2, 15, 14>>, 1, Key8, IssueId, IssueParameter,
             Slice(PackageKey, 0, 7) >>}

\* <<area_code, service_code_range, size, key_version, area_key, package_key>>
AreaArgs ==
    {<< a, <<4096, 8191>>, 16, 1, Key8, PackageKey >> : a \in {4096, 4097}}
    \cup {<< 4096, <<4096, 8191>>, 16, 1, Slice(Key8, 0, 7), PackageKey >>,
          << 4096, <<4096, 8191>>, 16, 1, Key8, PackageKey \o <<0>> >>}

\* <<service_code, size, key_version, service_key, package_key>>
ServiceArgs ==
    {<< 4105, 0, 0, k, PackageKey >> : k \in {Zeros(BLOCK_SIZE), Zeros(2 * BLOCK_SIZE)}}
    \cup {<< 4105, 0, 0, Zeros(BLOCK_SIZE), Slice(PackageKey, 0, 7) >>}

\* ------------------------------------------------------ FeliCa Lite, Lite-S
\* pyDes.triple_des(key, CBC, iv).encrypt(data) under a 16-byte key
RECURSIVE TripleDesCbc(_, _, _)
TripleDesCbc(data, key, prev) ==
    IF Len(data) = 0 THEN <<>>
    ELSE LET c == EcbEde(xor_bytes(SubSeq(data, 1, BLOCK_SIZE), prev),
                         SubSeq(key, 1, BLOCK_SIZE),
                         SubSeq(key, BLOCK_SIZE + 1, 2 * BLOCK_SIZE), TRUE)
         IN  c \o TripleDesCbc(SliceFrom(data, BLOCK_SIZE), key, c)

\* FelicaLite.generate_mac (flip_key False): every 8 bytes of data reversed,
\* encrypted, and the last 8 bytes of the result in reversed order
generate_mac(data, key, iv) ==
    LET txt == [i \in 1..Len(data) |->
                   data[BLOCK_SIZE * ((i - 1) \div BLOCK_SIZE) + BLOCK_SIZE
                        - ((i - 1) % BLOCK_SIZE)]]
        out == TripleDesCbc(txt, key, iv)
    IN  [i \in 1..BLOCK_SIZE |-> out[Len(out) + 1 - i]]

\* The card key the tag holds
TagCK == <<1, 2, 3, 4, 5, 6, 7, 8, 9, 10, 11, 12, 13, 14, 15, 16>>

\* The session key the tag derives from the challenge in its RC block
TagSk(t) == TripleDesCbc(t.rc, TagCK, IV_ZEROS)

\* What a call on the tag object leaves: the object l, the tag t, the
\* exception raised ("ok": none; "TransportError": a Type3TagCommandError of
\* the exchange with the tag) and the value returned (True <<1>>, False
\* <<0>>, None <<>>, or the data read)
LiteResult(l, t, exc, ret) == [l |-> l, t |-> t, exc |-> exc, ret |-> ret]

\* The blocks the tag returns when block and the MAC block 0x81 are read:
\* the block, the MAC over it under the tag's session key, 8 zero bytes
TagRead(t, block, dev) ==
    LET data == CASE block = 146 -> <<t.ext_auth>> \o Zeros(15)
                  [] block = 130 -> Fill(77, 16)
                  [] OTHER       -> Fill(66, 16)
        mac  == generate_mac(data, TagSk(t), Slice(t.rc, 0, BLOCK_SIZE))
    IN  data \o (IF dev = "bad_mac" THEN Corrupt(mac) ELSE mac) \o Zeros(BLOCK_SIZE)

\* Faulty variant of _authenticate: the NDEF access methods are not reset
\* with the flag.
AuthenticateKeepsNdefMethods(l, t, password, rc, dev) ==
    IF Len(password) > 0 /\ Len(password) < 16
    THEN LiteResult(l, t, "ValueError", <<>>)
    ELSE LET key  == IF Len(password) = 0 THEN Zeros(16) ELSE Slice(password, 0, 16)
             l1   == [l EXCEPT !.authenticated = FALSE]
             t1   == [t EXCEPT !.rc = rc, !.ext_auth = 0]
             sk   == TripleDesCbc(rc, key, IV_ZEROS)
             data == TagRead(t1, 130, IF dev = "id_bad_mac" THEN "bad_mac" ELSE "honest")
         IN  IF dev = "rc_write_fails" THEN LiteResult(l1, t, "TransportError", <<>>)
             ELSE IF dev = "id_read_fails"
             THEN LiteResult(l1, t1, "TransportError", <<>>)
             ELSE IF Slice(data, Len(data) - 16, Len(data) - 8)
                        = generate_mac(Slice(data, 0, Len(data) - 16), sk,
                                       Slice(rc, 0, BLOCK_SIZE))
             THEN LiteResult([l1 EXCEPT !.sk = sk, !.iv = Slice(rc, 0, BLOCK_SIZE),
                                        !.authenticated = TRUE,
                                        !.read_from_ndef_service = "read_with_mac"],
                          t1, "ok", <<1>>)
             ELSE LiteResult(l1, t1, "ok", <<0>>)

\* FelicaLite._authenticate, which FelicaLite.authenticate runs through the
\* tag base class; rc is the challenge os.urandom draws. The tag puts a
\* challenge written to it in its RC block and clears ext_auth.
_authenticate(l, t, password, rc, dev) ==
    IF Len(password) > 0 /\ Len(password) < 16
    THEN LiteResult(l, t, "ValueError", <<>>)
    ELSE LET key  == IF Len(password) = 0 THEN Zeros(16) ELSE Slice(password, 0, 16)
             l1   == [l EXCEPT !.authenticated = FALSE,
                               !.read_from_ndef_service = "read_without_mac",
                               !.write_to_ndef_service = "write_without_mac"]
             t1   == [t EXCEPT !.rc = rc, !.ext_auth = 0]
             sk   == TripleDesCbc(rc, key, IV_ZEROS)
             data == TagRead(t1, 130, IF dev = "id_bad_mac" THEN "bad_mac" ELSE "honest")
         IN  IF dev = "rc_write_fails" THEN LiteResult(l1, t, "TransportError", <<>>)
             ELSE IF dev = "id_read_fails"
             THEN LiteResult(l1, t1, "TransportError", <<>>)
             ELSE IF Slice(data, Len(data) - 16, Len(data) - 8)
                        = generate_mac(Slice(data, 0, Len(data) - 16), sk,
                                       Slice(rc, 0, BLOCK_SIZE))
             THEN LiteResult([l1 EXCEPT !.sk = sk, !.iv = Slice(rc, 0, BLOCK_SIZE),
                                        !.authenticated = TRUE,
                                        !.read_from_ndef_service = "read_with_mac"],
                          t1, "ok", <<1>>)
             ELSE LiteResult(l1, t1, "ok", <<0>>)

\* FelicaLite.read_with_mac of one block
read_with_mac(l, t, block, dev) ==
    IF l.sk = <<>> \/ l.iv = <<>> THEN LiteResult(l, t, "RuntimeError", <<>>)
    ELSE IF dev = "read_fails" THEN LiteResult(l, t, "TransportError", <<>>)
    ELSE LET data == TagRead(t, block, dev)
         IN  IF Slice(data, Len(data) - 16, Len(data) - 8)
                    # generate_mac(Slice(data, 0, Len(data) - 16), l.sk, l.iv)
             THEN LiteResult(l, t, "ok", <<>>)
             ELSE LiteResult(l, t, "ok", Slice(data, 0, Len(data) - 16))

\* FelicaLiteS.write_with_mac; the tag accepts the write when the MAC is the
\* one it computes under its own session key, counts it, and takes the first
\* byte written to the state block (0x92) as ext_auth
write_with_mac(l, t, data, block, dev) ==
    IF Len(data) # 16 THEN LiteResult(l, t, "ValueError", <<>>)
    ELSE IF l.sk = <<>> \/ l.iv = <<>> THEN LiteResult(l, t, "RuntimeError", <<>>)
    ELSE IF dev = "write_fails" THEN LiteResult(l, t, "TransportError", <<>>)
    ELSE LET wcnt  == <<t.wcnt, 0, 0>>
             plain == wcnt \o <<0, block, 0, 145, 0>> \o data
             flip(sk) == SliceFrom(sk, BLOCK_SIZE) \o Slice(sk, 0, BLOCK_SIZE)
             maca  == generate_mac(plain, flip(l.sk), l.iv) \o wcnt \o Zeros(5)
         IN  IF Slice(maca, 0, BLOCK_SIZE)
                    # generate_mac(plain, flip(TagSk(t)), Slice(t.rc, 0, BLOCK_SIZE))
             THEN LiteResult(l, t, "TransportError", <<>>)
             ELSE LiteResult(l,
                      [t EXCEPT !.wcnt = t.wcnt + 1,
                                !.ext_auth = IF block = 146 /\ dev # "no_ext_auth"
                                             THEN data[1] ELSE t.ext_auth],
                      "ok", <<>>)

\* FelicaLiteS.authenticate, lines 1602-1609: r is what read_with_mac(0x92)
\* left; None makes the subscript raise TypeError
AuthenticateRead(r) ==
    IF r.exc # "ok" THEN r
    ELSE IF r.ret = <<>> THEN LiteResult(r.l, r.t, "TypeError", <<>>)
    ELSE IF r.ret[1] = 1
    THEN LiteResult([r.l EXCEPT !.authenticated = TRUE,
                                !.read_from_ndef_service = "read_with_mac",
                                !.write_to_ndef_service = "write_with_mac"],
                    r.t, "ok", <<1>>)
    ELSE LiteResult(r.l, r.t, "ok", <<0>>)

\* FelicaLiteS.authenticate, lines 1597-1602: w is what write_with_mac left
AuthenticateWritten(w, dev) ==
    IF w.exc # "ok" THEN w
    ELSE AuthenticateRead(read_with_mac(w.l, w.t, 146, dev))

\* Faulty variant of AuthenticateExternal: the flag is not reset before the
\* external authentication.
AuthenticateExternalKeepsFlag(a, dev) ==
    IF a.exc # "ok" \/ a.ret # <<1>> THEN a
    ELSE AuthenticateWritten(
             write_with_mac([a.l EXCEPT !.read_from_ndef_service = "read_without_mac",
                                        !.write_to_ndef_service = "write_without_mac"],
                            a.t, <<1>> \o Zeros(15), 146, dev), dev)

\* FelicaLiteS.authenticate, lines 1585-1611: a is what the internal
\* authentication left; after it succeeded the flag is reset and ext_auth = 1
\* is written with MAC
AuthenticateExternal(a, dev) ==
    IF a.exc # "ok" \/ a.ret # <<1>> THEN a
    ELSE AuthenticateWritten(
             write_with_mac([a.l EXCEPT !.authenticated = FALSE,
                                        !.read_from_ndef_service = "read_without_mac",
                                        !.write_to_ndef_service = "write_without_mac"],
                            a.t, <<1>> \o Zeros(15), 146, dev), dev)

\* FelicaLiteS.authenticate: the internal authentication, then the write of
\* ext_auth = 1 with MAC and the read of the state block with MAC
authenticate(l, t, password, rc, dev) ==
    AuthenticateExternal(_authenticate(l, t, password, rc, dev), dev)

\* ------------------------------------------------------ FelicaStandard.dump
\* The area and service definitions of one system, in the order of their
\* service index; an area is <<area code, last service index>>, a service is
\* <<service code>>: the root area, an area with a nested area that holds
\* one Random service with two access modes, a Random service of the outer
\* area, and a second area of the root with a Purse service with two access
\* modes.
Entries ==
    << <<0, 65534>>, <<4096, 8191>>, <<5120, 6143>>, <<5128>>, <<5131>>,
       <<6153>>, <<8192, 12287>>, <<8208>>, <<8215>> >>

\* The definitions of Entries at the positions in S, in order
Layout(S) ==
    [k \in 1..Cardinality(S) |->
        Entries[CHOOSE i \in S : Cardinality({j \in S : j < i}) = k - 1]]

\* search_service_code as dump sees it: the definition at service_index of
\* the card, None (<<>>) when there is none
search_service_code(card, service_index) ==
    IF service_index < Len(card) THEN card[service_index + 1] ELSE <<>>

\* print_area: one line, indented by depth
print_area(area_from, area_last, depth) ==
    << [kind |-> "Area", codes |-> <<area_from, area_last>>, depth |-> depth] >>

\* print_service: the line that describes the overlapped services, indented
\* by depth (the lines of block data that follow it have the same indent and
\* are left out)
print_service(services, depth) ==
    << [kind |-> "Service", codes |-> services, depth |-> depth] >>

\* dump before the walk of a system: the card, the service index the walk
\* is at, the area stack, the pending overlapped services and the lines
WalkNew ==
    [pc |-> "idle", card |-> <<>>, service_index |-> 0, area_stack |-> <<>>,
     overlap_services |-> <<>>, lines |-> <<>>]

\* Lines 331-333 and 360-362: the pending overlapped services are printed
FlushServices(w, depth) ==
    IF Len(w.overlap_services) > 0
    THEN w.lines \o print_service(w.overlap_services, depth)
    ELSE w.lines

\* Lines 335-356: a service definition
WalkService(w, service, depth) ==
    LET overlap == w.overlap_services
        prev    == overlap[Len(overlap)]
        end_overlap_services ==
            /\ Len(overlap) > 0
            /\ ~ /\ service \div 16 = prev \div 16
                 /\ \/ (service \div 16) % 2 = 1
                    \/ service \div 4 = prev \div 4
    IN  IF end_overlap_services
        THEN [w EXCEPT !.service_index = w.service_index + 1,
                       !.lines = w.lines \o print_service(overlap, depth),
                       !.overlap_services = <<service>>]
        ELSE [w EXCEPT !.service_index = w.service_index + 1,
                       !.overlap_services = Append(overlap, service)]

\* Lines 357-368: an area definition
WalkArea(w, area_from, area_last, depth) ==
    LET stack  == w.area_stack
        popped == IF Len(stack) > 0 /\ area_from > stack[Len(stack)][2]
                  THEN SubSeq(stack, 1, Len(stack) - 1) ELSE stack
    IN  [w EXCEPT !.service_index = w.service_index + 1,
                  !.lines = FlushServices(w, depth)
                                \o print_area(area_from, area_last, depth),
                  !.overlap_services = <<>>,
                  !.area_stack = Append(popped, <<area_from, area_last>>)]

\* One iteration of the loop over the service index, lines 324-368
WalkIteration(w) ==
    LET depth           == Len(w.area_stack)
        area_or_service == search_service_code(w.card, w.service_index)
    IN  IF area_or_service = <<>>
        THEN [w EXCEPT !.pc = "done", !.lines = FlushServices(w, depth),
                       !.overlap_services = <<>>]
        ELSE IF Len(area_or_service) = 1
        THEN WalkService(w, area_or_service[1], depth)
        ELSE WalkArea(w, area_or_service[1], area_or_service[2], depth)

\* ----------------------------------------------------------- state machine
\* The callers that share one session when it is used without mutual
\* exclusion
Callers == {1, 2}

\* A caller that is not inside a call: where it is in _encryption_exchange,
\* the transaction_number it read for the increment, the encrypted command
\* it built, the response the transport returned to it, and the calls it has
\* made
CallerIdle(made) ==
    [pc |-> "idle", loaded |-> 0, encrypted_data |-> <<>>,
     encrypted_response |-> <<>>, made |-> made]

\* FelicaLite.__init__: no session key and no initialization vector (None:
\* the empty string here); _authenticated is the flag of the tag base class,
\* false until an authentication succeeds. With it the call that ended last:
\* its name, the flag before it, the exception it raised and what it returned.
LiteNew ==
    [cls |-> "FelicaLiteS", authenticated |-> FALSE, sk |-> <<>>, iv |-> <<>>,
     read_from_ndef_service |-> "read_without_mac",
     write_to_ndef_service |-> "write_without_mac",
     op |-> "none", was |-> FALSE, password |-> <<>>, exc |-> "ok", ret |-> <<>>]

\* A FeliCa Lite-S tag in the field: the random challenge in its RC block
\* (all zero before one is written), the ext_auth byte of its state block
\* and its write counter
TagNew == [rc |-> Zeros(2 * BLOCK_SIZE), ext_auth |-> 0, wcnt |-> 0]

VARIABLES
    authenticated,        \* self._authenticated_standard
    transaction_id,       \* self.transaction_id
    transaction_key,      \* self.transaction_key
    transaction_number,   \* self.transaction_number
    last,                 \* the call that has just ended and not yet been
                          \* taken by the caller: its name, arguments, the
                          \* session before it, and its outcome
    nOps,                 \* exchanges that advanced transaction_number since a
                          \* handshake or reset set it
    highest,              \* the highest transaction number sent in a command
                          \* or accepted from a response since a handshake or
                          \* reset set transaction_number
    callers,              \* the callers inside _encryption_exchange
    transmitted,          \* the commands the callers have sent, in order
    interleaved,          \* a caller wrote transaction_number while another
                          \* was between reading it and building its payload
    lite,                 \* _authenticated, _sk and _iv of a FelicaLite(S)
    tag,                  \* the FeliCa Lite-S tag it talks to
    walk                  \* dump: the card and the locals of the walk

vars == <<authenticated, transaction_id, transaction_key, transaction_number,
          last, nOps, highest, callers, transmitted, interleaved, lite, tag,
          walk>>

\* The variables of the callers that share a session
concVars == <<callers, transmitted, interleaved>>

\* The variables of the FeliCa Lite reader and tag
liteVars == <<lite, tag>>

Cur == Session(authenticated, transaction_id, transaction_key, transaction_number)

Last(op, args, pre, x) ==
    [op |-> op, args |-> args, pre |-> pre, exc |-> x.exc, ret |-> x.ret,
     calls |-> x.calls, received |-> x.received, env |-> x.env,
     env_ret |-> x.env_ret, response |-> x.response, sent |-> x.sent]

\* No call has ended since the caller took the last outcome
NoCall ==
    Last("none", <<>>, Session(FALSE, <<>>, <<>>, 0),
         Outcome(Session(FALSE, <<>>, <<>>, 0), "ok", <<>>, <<>>))

\* FelicaStandard.__init__
Init ==
    /\ authenticated = FALSE
    /\ transaction_id = <<>>
    /\ transaction_key = <<>>
    /\ transaction_number = 0
    /\ last = NoCall
    /\ nOps = 0
    /\ highest = 0
    /\ callers = [c \in Callers |-> CallerIdle(0)]
    /\ transmitted = <<>>
    /\ interleaved = FALSE
    /\ lite = LiteNew
    /\ tag = TagNew
    /\ walk = WalkNew

\* The session and the record of the call after operation op ended as x
Apply(op, args, x) ==
    /\ last.op = "none"
    /\ authenticated' = x.s.authenticated
    /\ transaction_id' = x.s.transaction_id
    /\ transaction_key' = x.s.transaction_key
    /\ transaction_number' = x.s.transaction_number
    /\ last' = Last(op, args, Cur, x)
    /\ UNCHANGED <<concVars, liteVars, walk>>

\* The transaction number in the command data, encrypted under key: the
\* first two bytes of its first block
NumberIn(data, key) ==
    FromBytesLE(Slice(decrypt_des(Slice(data, 0, BLOCK_SIZE), key), 0, 2))

\* The highest of h, the number in the command the exchange x sent on
\* session s, and the number of the response it accepted
Highest(h, s, x) ==
    LET sent == IF x.calls = <<>> THEN h
                ELSE NumberIn(x.calls[1].data, s.transaction_key)
        seen == IF x.env = "ok" THEN x.s.transaction_number ELSE sent
    IN  IF seen > sent /\ seen > h THEN seen
        ELSE IF sent > h THEN sent
        ELSE h

\* An operation built on the encrypted exchange
Envelope(op, args, x) ==
    /\ nOps < MaxOps
    /\ Apply(op, args, x)
    /\ nOps' = IF x.s.transaction_number # transaction_number THEN nOps + 1 ELSE nOps
    /\ highest' = Highest(highest, Cur, x)

\* A handshake that ends as x; args are the arguments of the call, followed
\* by the random_1 drawn in it and the card the transport reached
Handshake(args, x) ==
    /\ Apply("mutual_authentication", args, x)
    /\ nOps' = IF x.s.transaction_number # transaction_number \/ x.exc = "ok"
               THEN 0 ELSE nOps
    /\ highest' = IF x.s.transaction_number # transaction_number \/ x.exc = "ok"
                  THEN x.s.transaction_number ELSE highest

MutualAuthentication ==
    \E keys \in KeyPairs, a \in AuthArgs, random_1 \in Randoms, card \in HandshakeCards :
        Handshake(<<a[1], a[2], keys[1], keys[2], random_1, card>>,
                  mutual_authentication(Cur, Idm, a[1], a[2], keys[1], keys[2],
                                        random_1, card))

ReadBlocks ==
    \E elements \in ReadArgs, card \in EnvCards :
        Envelope("read_blocks", <<elements>>, read_blocks(Cur, elements, card))

WriteBlocks ==
    \E elements_data \in WriteArgs, card \in EnvCards :
        Envelope("write_blocks", <<elements_data>>,
                 write_blocks(Cur, elements_data, card))

RegisterIssueId ==
    \E a \in IssueArgs, card \in EnvCards :
        Envelope("register_issue_id", a,
                 register_issue_id(Cur, a[1], a[2], a[3], a[4], a[5], a[6], card))

RegisterArea ==
    \E a \in AreaArgs, card \in EnvCards :
        Envelope("register_area", a,
                 register_area(Cur, a[1], a[2], a[3], a[4], a[5], a[6], card))

RegisterService ==
    \E a \in ServiceArgs, card \in EnvCards :
        Envelope("register_service", a,
                 register_service(Cur, a[1], a[2], a[3], a[4], a[5], card))

CommitRegistration ==
    \E card \in EnvCards :
        Envelope("commit_registration", <<>>, commit_registration(Cur, card))

ResetAuthentication ==
    /\ Apply("reset_authentication", <<>>, reset_authentication(Cur))
    /\ nOps' = 0
    /\ highest' = 0

\* The caller takes the outcome of the call that ended; the session stays
\* as the call left it.
Return ==
    /\ last.op # "none"
    /\ last' = NoCall
    /\ UNCHANGED <<authenticated, transaction_id, transaction_key,
                   transaction_number, nOps, highest, concVars, liteVars, walk>>

Next ==
    \/ MutualAuthentication
    \/ ReadBlocks
    \/ WriteBlocks
    \/ RegisterIssueId
    \/ RegisterArea
    \/ RegisterService
    \/ CommitRegistration
    \/ ResetAuthentication
    \/ Return

Spec == Init /\ [][Next]_vars

\* ------------------------------------------------------------ long commands
\* A caller that authenticates with the card's keys and writes many blocks
\* at once; the card follows the handshake, and answers the write, answers it
\* with a wrong MAC or not at all
AuthenticateToWrite ==
    \E random_1 \in Randoms, r2 \in CardRandoms, n \in {0, 65533} :
        Handshake(<< <<0>>, <<9, 10>>, CardGSK, CardUSK, random_1,
                     Card(CardGSK, CardUSK, r2, n, "honest", "honest") >>,
                  mutual_authentication(Cur, Idm, <<0>>, <<9, 10>>, CardGSK, CardUSK,
                      random_1, Card(CardGSK, CardUSK, r2, n, "honest", "honest")))

LongWriteCards == {EnvCard("next", "ok", dev) : dev \in {"honest", "bad_mac", "timeout"}}

WriteManyBlocks ==
    \E elements_data \in LongWriteArgs, card \in LongWriteCards :
        Envelope("write_blocks", <<elements_data>>,
                 write_blocks(Cur, elements_data, card))

NextLong ==
    \/ AuthenticateToWrite
    \/ WriteManyBlocks
    \/ Return

SpecLong == Init /\ [][NextLong]_vars


\* ------------------------------------------- callers without mutual exclusion
\* Two callers run _encryption_exchange on one session, statement by
\* statement, with nothing that keeps one out while the other is inside.
\* Bound on the calls one caller makes
MaxCalls == 2

\* The session is authenticated once, by a handshake the card follows
ConcAuthenticate ==
    /\ ~authenticated
    /\ \E n \in {0, 65532} :
        LET x == mutual_authentication(Cur, Idm, <<0>>, <<9, 10>>, CardGSK, CardUSK,
                     <<11, 12, 13, 14, 15, 16, 17, 18>>,
                     Card(CardGSK, CardUSK, <<31, 32, 33, 34, 35, 36, 37, 38>>, n,
                          "honest", "honest"))
        IN  /\ authenticated' = x.s.authenticated
            /\ transaction_id' = x.s.transaction_id
            /\ transaction_key' = x.s.transaction_key
            /\ transaction_number' = x.s.transaction_number
    /\ UNCHANGED <<last, nOps, highest, concVars, liteVars, walk>>

\* Caller c moves on inside its call (or leaves it: made counts the call),
\* and the shared transaction_number becomes number. A write of
\* transaction_number while another caller is between its read of the number
\* (line 703) and its construction of the payload (lines 709-713) is an
\* interleaving of the increment and the payload construction.
ConcStep(c, next, number) ==
    /\ callers' = [callers EXCEPT ![c] = next]
    /\ transaction_number' = number
    /\ interleaved' =
           (\/ interleaved
            \/ /\ number # transaction_number
               /\ \E d \in Callers \ {c} : callers[d].pc \in {"store", "check", "build"})
    /\ UNCHANGED <<authenticated, transaction_id, transaction_key, last, nOps,
                   highest, liteVars, walk>>

\* Line 700: the call is entered, the authenticated flag is looked at
ConcEnter(c) ==
    /\ callers[c].pc = "idle"
    /\ callers[c].made < MaxCalls
    /\ ConcStep(c, IF authenticated THEN [callers[c] EXCEPT !.pc = "load"]
                   ELSE CallerIdle(callers[c].made + 1), transaction_number)
    /\ UNCHANGED transmitted

\* Line 703, self.transaction_number += 1: the number is read ...
ConcLoad(c) ==
    /\ callers[c].pc = "load"
    /\ ConcStep(c, [callers[c] EXCEPT !.pc = "store", !.loaded = transaction_number],
                transaction_number)
    /\ UNCHANGED transmitted

\* ... and the number read, plus one, is stored
ConcStore(c) ==
    /\ callers[c].pc = "store"
    /\ ConcStep(c, [callers[c] EXCEPT !.pc = "check"], callers[c].loaded + 1)
    /\ UNCHANGED transmitted

\* Lines 705-706: the overflow check
ConcOverflow(c) ==
    /\ callers[c].pc = "check"
    /\ ConcStep(c, IF transaction_number >= 65535
                   THEN CallerIdle(callers[c].made + 1)
                   ELSE [callers[c] EXCEPT !.pc = "build"], transaction_number)
    /\ UNCHANGED transmitted

\* Lines 709-723: the payload is built from the transaction number as it is
\* now, padded, given its MAC and encrypted; a number that does not fit two
\* bytes makes to_bytes raise, which ends the call
ConcBuild(c) ==
    /\ callers[c].pc = "build"
    /\ LET payload == ExchangePadded(transaction_number, transaction_id, Idm)
       IN  ConcStep(c, IF IsRaised(ToBytesLE(transaction_number, 2))
                       THEN CallerIdle(callers[c].made + 1)
                       ELSE [callers[c] EXCEPT !.pc = "send", !.encrypted_data =
                                encrypt_des(ExchangePlaintext(payload,
                                    _calculate_command_mac(CMD_COMMIT_REGISTRATION,
                                                           payload)),
                                    transaction_key)],
                    transaction_number)
    /\ UNCHANGED transmitted

\* Line 724: the command is transmitted and the card answers it
ConcSend(c) ==
    /\ callers[c].pc = "send"
    /\ ConcStep(c, [callers[c] EXCEPT !.pc = "receive", !.encrypted_response =
                       CardEnvelopeResponse(EnvCard("next", "ok", "honest"),
                           transaction_key, transaction_id, CMD_COMMIT_REGISTRATION,
                           callers[c].encrypted_data)],
                transaction_number)
    /\ transmitted' = Append(transmitted,
           [caller |-> c, number |-> NumberIn(callers[c].encrypted_data, transaction_key)])

\* Lines 727-730: the response is decrypted and verified against the session
\* as it is now
ConcReceive(c) ==
    /\ callers[c].pc = "receive"
    /\ ConcStep(c, CallerIdle(callers[c].made + 1),
           _verify_encrypted_response(Cur,
               decrypt_des(callers[c].encrypted_response, transaction_key),
               CMD_COMMIT_REGISTRATION).s.transaction_number)
    /\ UNCHANGED transmitted

NextConc ==
    \/ ConcAuthenticate
    \/ \E c \in Callers :
        \/ ConcEnter(c)
        \/ ConcLoad(c)
        \/ ConcStore(c)
        \/ ConcOverflow(c)
        \/ ConcBuild(c)
        \/ ConcSend(c)
        \/ ConcReceive(c)

SpecConc == Init /\ [][NextConc]_vars

\* ------------------------------------------------- a FeliCa Lite-S tag object
\* Bound on the writes with MAC the tag has counted
MaxWrites == 3

\* The tag object and the tag after call op ended as x
LiteCall(op, password, x) ==
    /\ lite' = [x.l EXCEPT !.op = op, !.was = lite.authenticated,
                           !.password = password, !.exc = x.exc, !.ret = x.ret]
    /\ tag' = x.t
    /\ UNCHANGED <<authenticated, transaction_id, transaction_key,
                   transaction_number, last, nOps, highest, concVars, walk>>

\* FelicaLite.authenticate of a FeliCa Lite tag: the internal authentication
LiteAuthenticate ==
    /\ lite.cls = "FelicaLite"
    /\ \E password \in {TagCK, TagCK \o <<17>>, Fill(9, 16), <<1, 2, 3>>, <<>>},
          rc \in {Fill(33, 16), [i \in 1..16 |-> 40 + i]},
          dev \in {"honest", "rc_write_fails", "id_read_fails", "id_bad_mac"} :
        LiteCall("authenticate", password, _authenticate(lite, tag, password, rc, dev))

LiteSAuthenticate ==
    /\ lite.cls = "FelicaLiteS"
    /\ tag.wcnt < MaxWrites
    /\ \E password \in {TagCK, TagCK \o <<17>>, Fill(9, 16), <<1, 2, 3>>, <<>>},
          rc \in {Fill(33, 16), [i \in 1..16 |-> 40 + i]},
          dev \in {"honest", "rc_write_fails", "id_read_fails", "id_bad_mac",
                   "write_fails", "no_ext_auth", "read_fails", "bad_mac"} :
        LiteCall("authenticate", password, authenticate(lite, tag, password, rc, dev))

ReadWithMac ==
    \E block \in {0, 146}, dev \in {"honest", "read_fails", "bad_mac"} :
        LiteCall("read_with_mac", <<>>, read_with_mac(lite, tag, block, dev))

WriteWithMac ==
    /\ lite.cls = "FelicaLiteS"
    /\ tag.wcnt < MaxWrites
    /\ \E data \in {Fill(5, 16), Fill(5, 15)}, dev \in {"honest", "write_fails"} :
        LiteCall("write_with_mac", data, write_with_mac(lite, tag, data, 0, dev))

NextLite ==
    \/ LiteAuthenticate
    \/ LiteSAuthenticate
    \/ ReadWithMac
    \/ WriteWithMac

\* A tag object of either class after construction, with the tag in the field
InitLite ==
    /\ authenticated = FALSE
    /\ transaction_id = <<>>
    /\ transaction_key = <<>>
    /\ transaction_number = 0
    /\ last = NoCall
    /\ nOps = 0
    /\ highest = 0
    /\ callers = [c \in Callers |-> CallerIdle(0)]
    /\ transmitted = <<>>
    /\ interleaved = FALSE
    /\ lite \in {LiteNew, [LiteNew EXCEPT !.cls = "FelicaLite"]}
    /\ tag = TagNew
    /\ walk = WalkNew

SpecLite == InitLite /\ [][NextLite]_vars

\* ------------------------------------------------------- the dump of a card
\* Bound on the area and service definitions of the system that is dumped
MaxEntries == 4

\* The systems that are dumped: the root area and up to MaxEntries - 1 more
\* of the definitions of Entries
Cards ==
    {Layout(S \cup {1}) : S \in {T \in SUBSET (2..Len(Entries)) :
                                    Cardinality(T) < MaxEntries}}

\* The session, the callers and the tag object take no part in dump
DumpOnly ==
    UNCHANGED <<authenticated, transaction_id, transaction_key,
                transaction_number, last, nOps, highest, concVars, liteVars>>

\* Lines 318-319: the walk of a system starts
DumpSystem ==
    /\ walk.pc = "idle"
    /\ \E card \in Cards : walk' = [WalkNew EXCEPT !.pc = "walk", !.card = card]
    /\ DumpOnly

\* Lines 324-368: the next service index
DumpNext ==
    /\ walk.pc = "walk"
    /\ walk' = WalkIteration(walk)
    /\ DumpOnly

\* Line 370: the lines are returned
DumpReturn ==
    /\ walk.pc = "done"
    /\ walk' = WalkNew
    /\ DumpOnly

NextDump ==
    \/ DumpSystem
    \/ DumpNext
    \/ DumpReturn

SpecDump == Init /\ [][NextDump]_vars

\* ------------------------------------------------- the utilities on their own
\* Bounds on the inputs of the utilities: the length of the operands of
\* xor_bytes, the length of the data that is padded or packaged, the number of
\* area keys and of service keys.
MaxXorLen == 2

MaxDataLen == 17

MaxKeys == 2

\* Bound on the 8-byte blocks of a payload whose MAC is computed
MaxMacBlocks == 30

\* The byte strings of at most n bytes drawn from values
BytesUpTo(values, n) == UNION {[1..k -> values] : k \in 0..n}

XorInputs == BytesUpTo({0, 15, 170, 255}, MaxXorLen)

\* Data of every length up to MaxDataLen, some of it ending in bytes that
\* look like padding
DataInputs ==
    {[i \in 1..n |-> (7 * i) % 256] : n \in 0..MaxDataLen}
    \cup {Fill(v, n) : v \in {0, 8}, n \in 0..MaxDataLen}

PackageKeys == {PackageKey, Key8, Slice(Key8, 0, 7)}

\* Lists of at most MaxKeys keys, one of them of the wrong size
KeyLists == BytesUpTo({Zeros(BLOCK_SIZE), Key8, PackageKey, Slice(Key8, 0, 7)}, MaxKeys)

SystemKeys == {Zeros(BLOCK_SIZE), CardGSK}

\* A call of a utility that touches no session state and ends with exc,
\* returning ret
Utility(op, args, exc, ret) ==
    /\ last.op = "none"
    /\ last' = Last(op, args, Cur, Outcome(Cur, exc, ret, <<>>))
    /\ UNCHANGED <<authenticated, transaction_id, transaction_key,
                   transaction_number, nOps, highest, concVars, liteVars, walk>>

\* A call of a utility that returns the byte string v or raises ValueError
UtilityBytes(op, args, v) ==
    Utility(op, args, IF IsRaised(v) THEN "ValueError" ELSE "ok",
            IF IsRaised(v) THEN <<>> ELSE <<v>>)

\* A call of generate_service_keys that returns the pair v or raises
UtilityPair(op, args, v) ==
    Utility(op, args, IF Len(v) = 2 THEN "ok" ELSE "ValueError",
            IF Len(v) = 2 THEN v ELSE <<>>)

\* The padded payload and the plaintext _encryption_exchange hands to
\* encryption for it
PayloadWithMac(cmd_code, payload) ==
    <<payload, ExchangePlaintext(payload, _calculate_command_mac(cmd_code, payload))>>

XorBytes ==
    \E a \in XorInputs, b \in XorInputs :
        UtilityBytes("xor_bytes", <<a, b>>, xor_bytes(a, b))

GenerateServiceKeys ==
    \E system_key \in SystemKeys, area_keys \in KeyLists, service_keys \in KeyLists :
        UtilityPair("generate_service_keys", <<system_key, area_keys, service_keys>>,
                    generate_service_keys(system_key, area_keys, service_keys))

GeneratePackage ==
    \E package_plain \in DataInputs, package_key \in PackageKeys :
        UtilityBytes("generate_package", <<package_plain, package_key>>,
                     generate_package(package_plain, package_key))

AddPadding ==
    \E data \in DataInputs : UtilityBytes("_add_padding", <<data>>, _add_padding(data))

EnvelopePlaintext ==
    \E data \in DataInputs, number \in {1, 65534}, cmd_code \in {CMD_READ, CMD_WRITE} :
        Utility("payload_with_mac",
                <<number, SliceFrom(Idm, 2), data, cmd_code>>, "ok",
                PayloadWithMac(cmd_code,
                               ExchangePadded(number, SliceFrom(Idm, 2), data)))

\* Payloads of whole blocks, up to MaxMacBlocks of them
MacPayloads == {[i \in 1..(BLOCK_SIZE * n) |-> (11 * i + n) % 256] : n \in 1..MaxMacBlocks}

\* Command and response codes a MAC is computed or checked for
MacCodes == {CMD_AUTH2 + 1, CMD_READ, CMD_READ + 1, 255}

\* The payload followed by its MAC for code c, where that MAC exists
Packet(c, payload, mac) == IF IsRaised(mac) THEN payload ELSE payload \o mac

\* Data handed to the response-MAC check: of every length up to MaxDataLen,
\* payloads followed by their MAC, and the same with the MAC altered
MacInputs ==
    DataInputs
    \cup {Packet(c, p, _calculate_command_mac(c, p)) :
            c \in {CMD_READ + 1}, p \in MacPayloads}
    \cup {Packet(c, p, Corrupt(_calculate_command_mac(c, p))) :
            c \in {CMD_READ + 1}, p \in {q \in MacPayloads : Len(q) <= 16}}

CalculateCommandMac ==
    /\ last.op = "none"
    /\ \E cmd_code \in MacCodes, payload \in MacPayloads :
        UtilityBytes("_calculate_command_mac", << <<cmd_code>>, payload >>,
                     _calculate_command_mac(cmd_code, payload))

CheckPacketMac ==
    /\ last.op = "none"
    /\ \E data \in MacInputs, expected_response_code \in MacCodes :
        Utility("_check_packet_mac", <<data, <<expected_response_code>> >>, "ok",
                << <<IF _check_packet_mac(data, expected_response_code) THEN 1 ELSE 0>> >>)

NextUtil ==
    \/ XorBytes
    \/ GenerateServiceKeys
    \/ GeneratePackage
    \/ AddPadding
    \/ EnvelopePlaintext
    \/ CalculateCommandMac
    \/ CheckPacketMac
    \/ Return

SpecUtil == Init /\ [][NextUtil]_vars

\* -------------------------------------------------------------- properties
\* The operations built on the encrypted exchange
EnvelopeOps ==
    {"read_blocks", "write_blocks", "register_issue_id", "register_area",
     "register_service", "commit_registration"}

\* The command code of an operation built on the encrypted exchange
CmdCode(op) ==
    CASE op = "read_blocks"         -> CMD_READ
      [] op = "write_blocks"        -> CMD_WRITE
      [] op = "register_issue_id"   -> CMD_REGISTER_ISSUE_ID
      [] op = "register_area"       -> CMD_REGISTER_AREA
      [] op = "register_service"    -> CMD_REGISTER_SERVICE
      [] op = "commit_registration" -> CMD_COMMIT_REGISTRATION

\* Well-formed arguments of an operation: a non-empty block list with indices
\* below 16 and numbers at most 255, 16-byte write blocks, a 4-digit system
\* code, 8-byte keys and identifiers, area_code equal to the range start.
WellFormed(op, args) ==
    CASE op = "read_blocks" ->
            /\ Len(args[1]) > 0
            /\ \A i \in 1..Len(args[1]) : args[1][i][1] < 16 /\ args[1][i][2] <= 255
      [] op = "write_blocks" ->
            /\ Len(args[1]) > 0
            /\ \A i \in 1..Len(args[1]) :
                  /\ args[1][i][1][1] < 16
                  /\ args[1][i][1][2] <= 255
                  /\ Len(args[1][i][2]) = 16
      [] op = "register_issue_id" ->
            /\ Len(args[1]) = 4
            /\ \A i \in 3..6 : Len(args[i]) = 8
      [] op = "register_area" ->
            /\ args[1] = args[2][1]
            /\ Len(args[5]) = 8
            /\ Len(args[6]) = 8
      [] op = "register_service" -> Len(args[4]) = 8 /\ Len(args[5]) = 8
      [] op = "commit_registration" -> TRUE
      [] OTHER -> FALSE

\* The call that has just ended is an operation built on the encrypted
\* exchange, made on an authenticated session
EnvelopeOnSession == last.op \in EnvelopeOps /\ last.pre.authenticated

\* The number that call put in its command
SentNumber == last.pre.transaction_number + 1

\* The response the transport returned to that call, decrypted with the
\* session's key, and the three things the verification looks at
EnvResponse == decrypt_des(last.received[1], last.pre.transaction_key)

EnvMacVerifies ==
    /\ last.received # <<>>
    /\ _check_packet_mac(EnvResponse, CmdCode(last.op) + 1)

EnvNumber == FromBytesLE(Slice(EnvResponse, 0, 2))

EnvIdMatches == Slice(EnvResponse, 2, 8) = last.pre.transaction_id

\* The handshake that has just ended, seen from what the caller passed, the
\* random_1 that was drawn and the responses the transport returned: the keys,
\* and the three checks of the handshake
HsKeys == AuthKeys(last.args[3], last.args[4], Idm)

Hs1BMatches ==
    /\ Len(last.received) >= 1
    /\ encrypt_3des(last.args[5], HsKeys.L, HsKeys.beta)
           = Slice(last.received[1], 0, 8)

HsPlain ==
    decrypt_des(last.received[2],
                decrypt_3des(Slice(last.received[1], 8, 16), HsKeys.L, HsKeys.beta))

HsMacVerifies ==
    /\ Len(last.received) >= 2
    /\ _check_packet_mac(HsPlain, CMD_AUTH2 + 1)

HsIdMatches == Slice(HsPlain, 2, 8) = SliceFrom(last.args[5], 2)

HsAllChecksPassed == Hs1BMatches /\ HsMacVerifies /\ HsIdMatches

\* One of the three checks was made and failed
HsCheckFailed ==
    \/ Len(last.received) >= 1 /\ ~Hs1BMatches
    \/ Hs1BMatches /\ Len(last.received) >= 2 /\ ~HsMacVerifies
    \/ Hs1BMatches /\ HsMacVerifies /\ ~HsIdMatches

\* C1: an operation built on the encrypted exchange, called on an
\* authenticated session whose transaction_number is 0xFFFE, fails with the
\* overflow error, makes no transport call and leaves transaction_number as
\* it was before the call.
C1_OverflowLeavesNumber ==
    (/\ EnvelopeOnSession
     /\ WellFormed(last.op, last.args)
     /\ last.pre.transaction_number = 65534)
        => /\ last.exc = "0x1005"
           /\ last.calls = <<>>
           /\ transaction_number = last.pre.transaction_number

\* C2: a response whose MAC verifies is rejected with a verification failure
\* when its number is at most the number that was sent; when its number is
\* strictly greater and its transaction id equals the session's, it is
\* accepted, transaction_number becomes the response's number and the
\* exchange returns the bytes after the 8-byte header.
C2_ResponseOrdering ==
    (EnvelopeOnSession /\ EnvMacVerifies)
        => IF EnvNumber <= SentNumber
           THEN last.env = "0x1003" /\ transaction_number = SentNumber
           ELSE EnvIdMatches
                    => /\ last.env = "ok"
                       /\ transaction_number = EnvNumber
                       /\ last.env_ret = SliceFrom(EnvResponse, 8)

C2_Witness ==
    /\ EnvelopeOnSession
    /\ EnvMacVerifies
    /\ EnvNumber > SentNumber
    /\ EnvIdMatches
    /\ last.env = "ok"
    /\ Len(last.env_ret) > 0

C4_FailedHandshakeUnauthenticated ==
    (last.op = "mutual_authentication" /\ last.exc # "ok") => ~authenticated

\* C5: after a handshake that fails at the AUTH2 MAC check or at the
\* transaction id check, authenticated, transaction_id, transaction_key and
\* transaction_number all have the values they had before the handshake.
C5_FailedHandshakeLeavesSession ==
    (/\ last.op = "mutual_authentication"
     /\ Hs1BMatches
     /\ Len(last.received) >= 2
     /\ ~(HsMacVerifies /\ HsIdMatches))
        => Cur = last.pre

\* C6: an operation built on the encrypted exchange, called with well-formed
\* arguments on an unauthenticated session, fails with the
\* authentication-required error (0x1001), makes no transport call and leaves
\* transaction_number, transaction_id and transaction_key unchanged.
C6_UnauthenticatedRefused ==
    (/\ last.op \in EnvelopeOps
     /\ ~last.pre.authenticated
     /\ WellFormed(last.op, last.args))
        => /\ last.exc = "0x1001"
           /\ last.calls = <<>>
           /\ transaction_number = last.pre.transaction_number
           /\ transaction_id = last.pre.transaction_id
           /\ transaction_key = last.pre.transaction_key

C6_Witness ==
    /\ last.op = "register_service"
    /\ WellFormed(last.op, last.args)
    /\ ~last.pre.authenticated
    /\ last.pre.transaction_key # <<>>
    /\ last.exc = "0x1001"

\* C7: no operation built on the encrypted exchange ends with a
\* transaction_number smaller than the one it started with.
C7_NumberNeverDecreases ==
    last.op \in EnvelopeOps => transaction_number >= last.pre.transaction_number

C7_Witness ==
    /\ EnvelopeOnSession
    /\ EnvMacVerifies
    /\ EnvIdMatches
    /\ EnvNumber < last.pre.transaction_number
    /\ transaction_number > last.pre.transaction_number

\* The response of the call that has just ended failed verification
VerificationFailed == EnvelopeOnSession /\ last.env \in {"0x1003", "0x1004"}

\* C8, as stated: after a verification failure on the response of an
\* operation built on the encrypted exchange, authenticated is false.
C8_VerificationFailureInvalidates == VerificationFailed => ~authenticated

\* C8, amended: after a verification failure on the response of an operation
\* built on the encrypted exchange, authenticated is still true and the next
\* such operation is not refused with the authentication-required error.
C8_VerificationFailureKeepsSession ==
    VerificationFailed
        => /\ authenticated
           /\ \A card \in EnvCards :
                  commit_registration(Cur, card).env # "0x1001"

C8_Witness ==
    /\ VerificationFailed
    /\ last.env = "0x1004"
    /\ authenticated
    /\ \E card \in EnvCards : commit_registration(Cur, card).exc = "ok"

\* C9: an operation built on the encrypted exchange that called the
\* transport and failed, because the transport failed or the response was
\* rejected, leaves authenticated, transaction_id and transaction_key
\* unchanged and transaction_number at its value before the call plus one;
\* transaction_number differs from that only when the MAC check, the ordering
\* check and the id check all passed.
C9_RejectedResponseKeepsSession ==
    /\ (EnvelopeOnSession /\ last.calls # <<>> /\ last.env # "ok")
           => /\ authenticated
              /\ transaction_id = last.pre.transaction_id
              /\ transaction_key = last.pre.transaction_key
              /\ transaction_number = SentNumber
    /\ (/\ EnvelopeOnSession
        /\ transaction_number \notin {last.pre.transaction_number, SentNumber})
           => /\ EnvMacVerifies
              /\ EnvNumber > SentNumber
              /\ EnvIdMatches
              /\ transaction_number = EnvNumber

C9_Witness ==
    /\ EnvelopeOnSession
    /\ EnvMacVerifies
    /\ EnvNumber > SentNumber
    /\ ~EnvIdMatches
    /\ last.env = "0x1003"
    /\ transaction_number = SentNumber

\* The session reset_authentication leaves
Cleared == Session(FALSE, <<>>, <<>>, 0)

\* x is a refusal with the authentication-required error that made no
\* transport call and left the session s as it was
Refused(x, s) == x.exc = "0x1001" /\ x.calls = <<>> /\ x.s = s

\* Every operation built on the encrypted exchange, called with well-formed
\* arguments on the current session, is refused
AllRefused ==
    \A card \in EnvCards :
        /\ \A e \in ReadArgs :
               WellFormed("read_blocks", <<e>>) => Refused(read_blocks(Cur, e, card), Cur)
        /\ \A e \in WriteArgs :
               WellFormed("write_blocks", <<e>>)
                   => Refused(write_blocks(Cur, e, card), Cur)
        /\ \A a \in IssueArgs :
               WellFormed("register_issue_id", a)
                   => Refused(register_issue_id(Cur, a[1], a[2], a[3], a[4], a[5],
                                                a[6], card), Cur)
        /\ \A a \in AreaArgs :
               WellFormed("register_area", a)
                   => Refused(register_area(Cur, a[1], a[2], a[3], a[4], a[5], a[6],
                                            card), Cur)
        /\ \A a \in ServiceArgs :
               WellFormed("register_service", a)
                   => Refused(register_service(Cur, a[1], a[2], a[3], a[4], a[5],
                                               card), Cur)
        /\ Refused(commit_registration(Cur, card), Cur)

\* C10: reset_authentication, called in any state, leaves authenticated
\* false, transaction_id and transaction_key empty and transaction_number 0;
\* calling it again changes nothing; and from then until a handshake
\* succeeds the session stays unauthenticated and every operation built on
\* the encrypted exchange is refused with the authentication-required error.
C10_ResetClearsSession ==
    /\ last.op = "reset_authentication"
           => /\ Cur = Cleared
              /\ reset_authentication(Cur).s = Cur
              /\ AllRefused
    /\ (last.op # "none" /\ ~last.pre.authenticated /\ authenticated)
           => last.op = "mutual_authentication" /\ last.exc = "ok"
    /\ (last.op = "none" /\ ~authenticated) => AllRefused

C10_Witness ==
    /\ last.op = "reset_authentication"
    /\ last.pre.authenticated
    /\ last.pre.transaction_number > 0
    /\ last.pre.transaction_key # <<>>
    /\ Cur = Cleared

\* The card of the handshake that has just ended follows the algorithm and
\* holds the keys the caller passed, and the area and service codes fit
\* their two bytes
HsHonest ==
    /\ last.op = "mutual_authentication"
    /\ last.args[6].auth1 = "honest"
    /\ last.args[6].auth2 = "honest"
    /\ last.args[3] = last.args[6].gsk
    /\ last.args[4] = last.args[6].usk
    /\ \A i \in 1..Len(last.args[1]) : last.args[1][i] < 65536
    /\ \A i \in 1..Len(last.args[2]) : last.args[2][i] < 65536

\* C11: against a card that follows the algorithm, mutual_authentication
\* succeeds with authenticated true, transaction_id = random_1[2:8],
\* transaction_key = random_2 (the decryption of challenge_2A),
\* transaction_number = the number in the first two bytes of the decrypted
\* AUTH2 response, and returns the card's issue id and issue parameter as
\* 16-digit hex strings.
C11_HonestCardAuthenticates ==
    HsHonest
        => /\ last.exc = "ok"
           /\ authenticated
           /\ transaction_id = Slice(last.args[5], 2, 8)
           /\ transaction_key = last.args[6].random_2
           /\ transaction_key
                  = decrypt_3des(Slice(last.received[1], 8, 16), HsKeys.L, HsKeys.beta)
           /\ transaction_number = last.args[6].number
           /\ transaction_number = FromBytesLE(Slice(HsPlain, 0, 2))
           /\ last.ret = <<Hex(IssueId), Hex(IssueParameter)>>
           /\ Len(last.ret[1]) = 16
           /\ Len(last.ret[2]) = 16

C11_Witness ==
    /\ HsHonest
    /\ last.exc = "ok"
    /\ authenticated
    /\ transaction_number = 65533
    /\ Len(transaction_id) = 6
    /\ Len(transaction_key) = 8

\* The codes of the transport calls of the call that has just ended
CallCodes == [i \in 1..Len(last.calls) |-> last.calls[i].code]

\* C12: in a handshake the AUTH2 command is sent only after the AUTH1
\* response's challenge_1B was found equal to encrypt3DES(random_1, L, beta);
\* on a mismatch the handshake fails with the authentication failure and no
\* AUTH2 command is sent.
C12_Auth2OnlyAfter1B ==
    last.op = "mutual_authentication"
        => /\ (\E i \in 1..Len(CallCodes) : CallCodes[i] = CMD_AUTH2)
                  => /\ Hs1BMatches
                     /\ CallCodes = <<CMD_AUTH1, CMD_AUTH2>>
           /\ (Len(last.received) >= 1 /\ ~Hs1BMatches)
                  => /\ last.exc = "0x1001"
                     /\ CallCodes = <<CMD_AUTH1>>

C12_Witness ==
    /\ last.op = "mutual_authentication"
    /\ Len(last.received) = 1
    /\ Len(last.received[1]) = 16
    /\ ~Hs1BMatches
    /\ last.exc = "0x1001"
    /\ CallCodes = <<CMD_AUTH1>>

\* An argument of the handshake that has just ended makes a computation
\* raise: a key that is not 8 bytes, a code that does not fit two bytes
HsBadArguments ==
    \/ Len(last.args[3]) # 8
    \/ Len(last.args[4]) # 8
    \/ \E i \in 1..Len(last.args[1]) : last.args[1][i] > 65535
    \/ \E i \in 1..Len(last.args[2]) : last.args[2][i] > 65535

\* C13: a failure inside mutual_authentication that is no protocol failure
\* (a key of the wrong length, a short AUTH1 response, an AUTH2 response of
\* a length that cannot be decrypted) reaches the caller as the
\* authentication failure 0x1001; the AUTH2 MAC failure (0x1004) and a
\* transport error reach the caller unchanged.
C13_HandshakeFailuresNormalized ==
    last.op = "mutual_authentication"
        => /\ last.exc \in {"ok", "0x1001", "0x1004", "TransportError"}
           /\ HsBadArguments => last.exc = "0x1001"
           /\ Len(last.received) < Len(last.calls) => last.exc = "TransportError"
           /\ (/\ Len(last.received) = Len(last.calls)
               /\ Hs1BMatches
               /\ Len(last.received[1]) < 16)
                  => last.exc = "0x1001"
           /\ (/\ Len(last.received) = 2
               /\ Hs1BMatches
               /\ Len(last.received[2]) % 8 # 0)
                  => last.exc = "0x1001"
           /\ (/\ Len(last.received) = 2
               /\ Hs1BMatches
               /\ Len(last.received[1]) >= 16
               /\ Len(last.received[2]) % 8 = 0
               /\ ~HsMacVerifies)
                  => last.exc = "0x1004"

C13_Witness ==
    /\ last.op = "mutual_authentication"
    /\ Len(last.received) = 2
    /\ Hs1BMatches
    /\ Len(last.received[2]) % 8 # 0
    /\ last.exc = "0x1001"

\* C14: nothing is retried: an operation built on the encrypted exchange
\* makes at most one transport call, a handshake at most one AUTH1 and one
\* AUTH2 call, and a call the transport fails ends the operation with the
\* transport's error.
C14_NoRetry ==
    /\ last.op \in EnvelopeOps
           => /\ Len(last.calls) <= 1
              /\ \A i \in 1..Len(CallCodes) : CallCodes[i] = CmdCode(last.op)
    /\ last.op = "mutual_authentication"
           => CallCodes \in {<<>>, <<CMD_AUTH1>>, <<CMD_AUTH1, CMD_AUTH2>>}
    /\ (last.op \in EnvelopeOps \cup {"mutual_authentication"}
            /\ Len(last.received) < Len(last.calls))
           => /\ last.exc = "TransportError"
              /\ Len(last.received) = Len(last.calls) - 1

C14_Witness ==
    /\ EnvelopeOnSession
    /\ Len(last.calls) = 1
    /\ last.received = <<>>
    /\ last.exc = "TransportError"

\* The arguments args of operation op are invalid: a key, id, parameter or
\* package key of the wrong size, an area_code that is not the range start,
\* an empty list, a service index of 16 or more, a data block that is not
\* 16 bytes
InvalidInput(op, args) ==
    CASE op = "register_issue_id" -> \E i \in 3..6 : Len(args[i]) # 8
      [] op = "register_area" ->
            args[1] # args[2][1] \/ Len(args[5]) # 8 \/ Len(args[6]) # 8
      [] op = "register_service" -> Len(args[4]) # 8 \/ Len(args[5]) # 8
      [] op = "read_blocks" ->
            Len(args[1]) = 0 \/ \E i \in 1..Len(args[1]) : args[1][i][1] >= 16
      [] op = "write_blocks" ->
            \/ Len(args[1]) = 0
            \/ \E i \in 1..Len(args[1]) :
                   args[1][i][1][1] >= 16 \/ Len(args[1][i][2]) # 16
      [] OTHER -> FALSE

\* C15: an operation called with invalid input fails before any transport
\* call and leaves authenticated, transaction_id, transaction_key and
\* transaction_number unchanged, on an authenticated session as on an
\* unauthenticated one.
C15_InvalidInputRejectedLocally ==
    (last.op \in EnvelopeOps /\ InvalidInput(last.op, last.args))
        => /\ last.exc = "ValueError"
           /\ last.calls = <<>>
           /\ Cur = last.pre

C15_Witness ==
    /\ EnvelopeOnSession
    /\ last.op = "register_area"
    /\ last.args[1] = last.args[2][1]
    /\ Len(last.args[5]) = 8
    /\ Len(last.args[6]) # 8
    /\ last.exc = "ValueError"
    /\ transaction_number = last.pre.transaction_number

\* The provisioning operations and the code each fails with
ProvisioningOps ==
    {"register_issue_id", "register_area", "register_service", "commit_registration"}

OpError(op) ==
    CASE op = "register_issue_id"   -> "0x1009"
      [] op = "register_area"       -> "0x1008"
      [] op = "register_service"    -> "0x1007"
      [] op = "commit_registration" -> "0x1002"

\* C16: a provisioning operation whose accepted response has a non-zero
\* status byte fails with the operation's own code; so does one whose
\* accepted response has fewer than two payload bytes, and one whose exchange
\* raises an exception that is no protocol failure; the failures the envelope
\* raises (MAC, ordering, overflow, authentication required) reach the caller
\* unchanged.
C16_ProvisioningFailures ==
    (last.op \in ProvisioningOps /\ last.env # "none")
        => CASE last.env = "ok" ->
                    IF Len(last.sent[1]) < 2 THEN last.exc = OpError(last.op)
                    ELSE IF last.sent[1][1] # 0 THEN last.exc = OpError(last.op)
                    ELSE last.exc = "ok"
             [] last.env = "Exception" -> last.exc = OpError(last.op)
             [] OTHER ->
                    /\ last.env \in {"0x1001", "0x1003", "0x1004", "0x1005",
                                     "TransportError"}
                    /\ last.exc = last.env

\* data, padded as the envelope requires: unchanged when its length is a
\* multiple of 8, otherwise followed by n = 8 - (length mod 8) bytes of value n
PaddedAs(data, padded) ==
    IF Len(data) % 8 = 0 THEN padded = data
    ELSE /\ 8 - (Len(data) % 8) \in 1..7
         /\ Len(padded) = Len(data) + 8 - (Len(data) % 8)
         /\ SubSeq(padded, 1, Len(data)) = data
         /\ \A i \in (Len(data) + 1)..Len(padded) : padded[i] = 8 - (Len(data) % 8)

PackageMac(plaintext, package_key) ==
    SliceFrom(encrypt_des(plaintext, xor_bytes(package_key, Fill(255, 8))),
              Len(plaintext) - 8)

\* C18, as stated: generate_package fails when len(plaintext) % 8 # 0 and
\* otherwise returns a ciphertext of exactly len(plaintext) + 8 bytes, equal
\* to the plaintext followed by its MAC, encrypted under the package key.
C18_PackageLength ==
    (last.op = "generate_package" /\ Len(last.args[2]) = 8)
        => IF Len(last.args[1]) % 8 # 0 THEN last.exc = "ValueError"
           ELSE /\ last.exc = "ok"
                /\ Len(last.ret[1]) = Len(last.args[1]) + 8
                /\ last.ret[1] = encrypt_des(last.args[1]
                                                 \o PackageMac(last.args[1], last.args[2]),
                                             last.args[2])

\* C18, amended: generate_package fails when len(plaintext) % 8 # 0; for a
\* non-empty plaintext of aligned length it returns a ciphertext of exactly
\* len(plaintext) + 8 bytes, equal to the plaintext followed by its MAC,
\* encrypted under the package key; for the empty plaintext it returns the
\* empty byte string.
C18_PackageLengthNonEmpty ==
    (last.op = "generate_package" /\ Len(last.args[2]) = 8)
        => IF Len(last.args[1]) % 8 # 0 THEN last.exc = "ValueError"
           ELSE IF Len(last.args[1]) = 0 THEN last.exc = "ok" /\ last.ret[1] = <<>>
           ELSE /\ last.exc = "ok"
                /\ Len(last.ret[1]) = Len(last.args[1]) + 8
                /\ last.ret[1] = encrypt_des(last.args[1]
                                                 \o PackageMac(last.args[1], last.args[2]),
                                             last.args[2])

C18_Witness ==
    /\ last.op = "generate_package"
    /\ Len(last.args[2]) = 8
    /\ Len(last.args[1]) = 16
    /\ last.exc = "ok"
    /\ Len(last.ret[1]) = 24

\* C19: generate_service_keys applies the area keys in list order to the
\* system key to get GSK, whatever the service keys, and goes on from GSK
\* with the service keys in list order to get USK; with no area keys GSK is
\* the system key, with no service keys USK is GSK.
C19_ServiceKeysChain ==
    (last.op = "generate_service_keys" /\ last.exc = "ok")
        => LET system_key   == last.args[1]
               area_keys    == last.args[2]
               service_keys == last.args[3]
               gsk          == last.ret[1]
               usk          == last.ret[2]
               front(keys)  == SubSeq(keys, 1, Len(keys) - 1)
           IN  /\ gsk = generate_service_keys(system_key, area_keys, <<>>)[1]
               /\ IF Len(area_keys) = 0 THEN gsk = system_key
                  ELSE gsk = encrypt_des(
                                 generate_service_keys(system_key, front(area_keys),
                                                       <<>>)[1],
                                 area_keys[Len(area_keys)])
               /\ IF Len(service_keys) = 0 THEN usk = gsk
                  ELSE usk = encrypt_des(
                                 generate_service_keys(system_key, area_keys,
                                                       front(service_keys))[2],
                                 service_keys[Len(service_keys)])

C19_Witness ==
    /\ last.op = "generate_service_keys"
    /\ last.exc = "ok"
    /\ Len(last.args[2]) = 2
    /\ last.args[2][1] # last.args[2][2]
    /\ Len(last.args[3]) = 2
    /\ last.ret[1] # last.args[1]
    /\ last.ret[2] # last.ret[1]

\* C20: xor_bytes fails for inputs of unequal length; for inputs of equal
\* length it returns an output of that length, and xoring the output with b
\* again gives a.
C20_XorBytes ==
    last.op = "xor_bytes"
        => IF Len(last.args[1]) # Len(last.args[2]) THEN last.exc = "ValueError"
           ELSE /\ last.exc = "ok"
                /\ Len(last.ret[1]) = Len(last.args[1])
                /\ xor_bytes(last.ret[1], last.args[2]) = last.args[1]

C20_Witness ==
    /\ last.op = "xor_bytes"
    /\ Len(last.args[1]) = 2
    /\ last.exc = "ok"
    /\ last.ret[1] # last.args[1]
    /\ last.ret[1] # last.args[2]


\* The plaintext of the command the call that has just ended transmitted:
\* number(2), transaction id(6), application data, padding, MAC(8)
SentPlain == decrypt_des(last.calls[1].data, last.pre.transaction_key)

\* register_service has just been called on an authenticated session that
\* holds an 8-byte transaction key and can still number a command, with a
\* zero service key of n bytes, size 0, key version 0 and an 8-byte package
\* key
ServiceCall(n) ==
    /\ last.op = "register_service"
    /\ last.pre.authenticated
    /\ Len(last.pre.transaction_key) = 8
    /\ last.pre.transaction_number < 65534
    /\ last.args[2] = 0
    /\ last.args[3] = 0
    /\ last.args[4] = Zeros(n)
    /\ Len(last.args[5]) = 8

\* That call transmitted one command whose application data is the service
\* code, the package and six bytes 0x06, the package being the encryption
\* under the package key of serviceCode(2) | 2 zero bytes | size(2) |
\* keyVersion(2) | serviceKey followed by 8 more bytes; and when the response
\* was accepted with status 0 it returned the count in response bytes 2-3
ServiceLayout(n) ==
    /\ Len(last.calls) = 1
    /\ last.calls[1].code = CMD_REGISTER_SERVICE
    /\ Slice(SentPlain, 8, 10) = <<last.args[1] % 256, last.args[1] \div 256>>
    /\ Slice(decrypt_des(Slice(SentPlain, 10, 26 + n), last.args[5]), 0, 8 + n)
           = <<last.args[1] % 256, last.args[1] \div 256, 0, 0, 0, 0, 0, 0>>
                 \o last.args[4]
    /\ Slice(SentPlain, 26 + n, 32 + n) = <<6, 6, 6, 6, 6, 6>>
    /\ (last.env = "ok" /\ last.env_ret[1] = 0)
           => /\ last.exc = "ok"
              /\ last.ret = << <<last.env_ret[3] + 256 * last.env_ret[4]>> >>

C22_ReadShape ==
    (last.op = "read_blocks" /\ last.exc = "ok")
        => /\ Len(last.ret) = Len(last.args[1])
           /\ \A i \in 1..Len(last.ret) : Len(last.ret[i]) = DATA_BLOCK_SIZE
           /\ last.sent[1][3] = Len(last.args[1])
           /\ Len(last.sent[1]) - 3 >= DATA_BLOCK_SIZE * Len(last.args[1])


\* C28: in every reachable state transaction_number is a 16-bit value,
\* 0 <= transaction_number <= 0xFFFF.
C28_NumberIs16Bit == transaction_number \in 0..65535

\* C29: under sequential use of a session, every command that is transmitted
\* carries a number greater than every number sent or accepted in the session
\* before, the response that is accepted a number greater still, and an
\* accepted exchange leaves transaction_number at least 2 above its value
\* before the call.
C29_NumbersIncrease ==
    [][(last'.op \in EnvelopeOps /\ last'.calls # <<>>)
           => /\ NumberIn(last'.calls[1].data, transaction_key) > highest
              /\ NumberIn(last'.calls[1].data, transaction_key) > transaction_number
              /\ last'.env = "ok"
                     => /\ FromBytesLE(Slice(last'.response, 0, 2))
                               > NumberIn(last'.calls[1].data, transaction_key)
                        /\ transaction_number'
                               = FromBytesLE(Slice(last'.response, 0, 2))
                        /\ transaction_number' >= transaction_number + 2
                        /\ highest' = transaction_number']_vars

C29_Witness ==
    /\ EnvelopeOnSession
    /\ last.env = "ok"
    /\ last.pre.transaction_number = 2
    /\ NumberIn(last.calls[1].data, last.pre.transaction_key) = 3
    /\ transaction_number = 4
    /\ highest = 4

\* The length of the application data an operation hands to the encrypted
\* exchange
AppDataLength(op, args) ==
    CASE op = "read_blocks"         -> 1 + 2 * Len(args[1])
      [] op = "write_blocks"        -> 1 + (2 + DATA_BLOCK_SIZE) * Len(args[1])
      [] op = "register_issue_id"   -> 40
      [] op = "register_area"       -> 32
      [] op = "register_service"    -> 32
      [] op = "commit_registration" -> 0

\* The length byte of the MAC seed for application data of n bytes: 2, the
\* length of the padded payload (number, transaction id and data) and 8
SeedLength(n) == 2 + 8 * ((8 + n + 7) \div 8) + 8

\* C30: an operation built on the encrypted exchange transmits a command
\* only if the MAC seed length 2 + len(padded payload) + 8 is at most 255;
\* with larger application data (write_blocks with 13 blocks) on a session
\* that would otherwise transmit, it fails before any transport call and
\* transaction_number is one more than before the call.
C30_SeedFitsOneByte ==
    /\ (last.op \in EnvelopeOps /\ last.calls # <<>>)
           => /\ SeedLength(AppDataLength(last.op, last.args)) <= 255
              /\ Len(last.calls[1].data)
                     = SeedLength(AppDataLength(last.op, last.args)) - 2
    /\ (/\ EnvelopeOnSession
        /\ WellFormed(last.op, last.args)
        /\ last.pre.transaction_number < 65534
        /\ SeedLength(AppDataLength(last.op, last.args)) > 255)
           => /\ last.exc \notin {"ok", "0x1005"}
              /\ last.calls = <<>>
              /\ transaction_number = last.pre.transaction_number + 1
              /\ authenticated

C30_Witness ==
    /\ EnvelopeOnSession
    /\ last.op = "write_blocks"
    /\ Len(last.args[1]) = 13
    /\ last.exc = "0x1002"
    /\ last.calls = <<>>
    /\ transaction_number = last.pre.transaction_number + 1


\* The last 8-byte block of data decrypted under block k, then k - 1, down to
\* block 1 of data
RECURSIVE Backward(_, _, _)
Backward(x, data, k) ==
    IF k = 0 THEN x
    ELSE Backward(decrypt_des(x, SubSeq(data, 8 * k - 7, 8 * k)), data, k - 1)

BackwardMac(data) ==
    Backward(SubSeq(data, Len(data) - 7, Len(data)), data, (Len(data) \div 8) - 1)

\* C26: the response-MAC check returns false for data whose length is not a
\* multiple of 8 or is less than 16; otherwise it returns true exactly when
\* the last block, decrypted backward through the blocks before it in reverse
\* order with each block as the key, starts with the byte len(data) + 2
\* followed by the expected response code; it never raises.
C26_ResponseMacCheck ==
    last.op = "_check_packet_mac"
        => /\ last.exc = "ok"
           /\ IF Len(last.args[1]) % 8 # 0 \/ Len(last.args[1]) < 16
              THEN last.ret = << <<0>> >>
              ELSE last.ret = << <<1>> >>
                       <=> /\ BackwardMac(last.args[1])[1] = Len(last.args[1]) + 2
                           /\ BackwardMac(last.args[1])[2] = last.args[2][1]

C26_Witness ==
    /\ last.op = "_check_packet_mac"
    /\ Len(last.args[1]) = 32
    /\ last.ret = << <<1>> >>

\* C27: for every code c and every non-empty payload p of whole blocks and at
\* most 240 bytes, the command MAC of (c, p) exists, and the response-MAC
\* check of p followed by it returns true for the expected code c and false
\* for every other expected code.
C27_MacRoundTrip ==
    (last.op = "_calculate_command_mac" /\ Len(last.args[2]) <= 240)
        => /\ last.exc = "ok"
           /\ Len(last.ret[1]) = 8
           /\ _check_packet_mac(last.args[2] \o last.ret[1], last.args[1][1])
           /\ \A c \in (MacCodes \cup {0, last.args[1][1] - 1}) \ {last.args[1][1]} :
                  ~_check_packet_mac(last.args[2] \o last.ret[1], c)

C27_Witness ==
    /\ last.op = "_calculate_command_mac"
    /\ Len(last.args[2]) = 240
    /\ last.exc = "ok"
    /\ _check_packet_mac(last.args[2] \o last.ret[1], last.args[1][1])


\* C23: two callers that use one session without mutual exclusion get two
\* commands transmitted with the same transaction number (the witness), and
\* that happens only after the increment of one caller and the payload
\* construction of the other were interleaved: a caller wrote
\* transaction_number while the other was between its read of the number and
\* the construction of its payload.
C23_SameNumberOnlyInterleaved ==
    (\E i, j \in 1..Len(transmitted) :
        i # j /\ transmitted[i].number = transmitted[j].number)
        => interleaved

C23_Witness ==
    /\ Len(transmitted) = 2
    /\ transmitted[1].caller # transmitted[2].caller
    /\ transmitted[1].number = transmitted[2].number
    /\ interleaved


\* C24: read_with_mac and write_with_mac (of a 16-byte block) raise
\* RuntimeError whenever they are called while the authenticated flag of the
\* tag object is false.
C24_MacAccessNeedsAuthentication ==
    (lite.op \in {"read_with_mac", "write_with_mac"} /\ ~lite.was
        /\ (lite.op = "write_with_mac" => Len(lite.password) = 16))
        => lite.exc = "RuntimeError"

\* C25 as stated: authenticate returns True only with the card key of the
\* tag and ext_auth set on the tag, and in every other outcome the
\* authenticated flag is false afterwards.
C25_FlagFalseUnlessTrue ==
    (lite.cls = "FelicaLiteS" /\ lite.op = "authenticate")
        => IF lite.exc = "ok" /\ lite.ret = <<1>>
           THEN /\ Slice(lite.password, 0, 16) = TagCK
                /\ tag.ext_auth = 1
                /\ lite.sk = TagSk(tag)
           ELSE ~lite.authenticated

\* C25: authenticate returns True only if the internal authentication
\* succeeded (the password is the card key of the tag, the session keys
\* agree) and ext_auth is set on the tag after the write with MAC; in every
\* other outcome of a call that got past the check of the password length,
\* an exception in the external step included, the authenticated flag is
\* false afterwards; a call rejected for a password of 1 to 15 bytes leaves
\* the flag as it was.
C25_FlagFalseUnlessTrueOrRejected ==
    (lite.cls = "FelicaLiteS" /\ lite.op = "authenticate")
        => IF lite.exc = "ok" /\ lite.ret = <<1>>
           THEN /\ Slice(lite.password, 0, 16) = TagCK
                /\ tag.ext_auth = 1
                /\ lite.sk = TagSk(tag)
                /\ lite.authenticated
           ELSE IF Len(lite.password) \in 1..15
           THEN lite.exc = "ValueError" /\ lite.authenticated = lite.was
           ELSE ~lite.authenticated

C25_Witness ==
    /\ lite.cls = "FelicaLiteS"
    /\ lite.op = "authenticate"
    /\ lite.was
    /\ lite.exc = "TypeError"
    /\ lite.sk = TagSk(tag)
    /\ ~lite.authenticated


\* Every transport call of the call that has just ended carries the
\* identifier header exactly when it is the AUTH1 command
CallsIdmOnlyAuth1 ==
    \A i \in 1..Len(last.calls) :
        last.calls[i].send_idm <=> (last.calls[i].code = CMD_AUTH1)

\* challenge_2B of the handshake that has just ended: the second half of the
\* AUTH1 response, decrypted under L and beta, encrypted under alpha and L
HsChallenge2B ==
    encrypt_3des(decrypt_3des(Slice(last.received[1], 8, 16), HsKeys.L, HsKeys.beta),
                 HsKeys.alpha, HsKeys.L)

\* C31, as stated: in every transport call the AUTH2 command and every
\* encrypted command are sent without the identifier header and the AUTH1
\* command with it, and the body of the AUTH2 command is exactly idm (8
\* bytes) followed by challenge_2B (8 bytes).
C31_Auth2Body ==
    /\ CallsIdmOnlyAuth1
    /\ \A i \in 1..Len(last.calls) :
           last.calls[i].code = CMD_AUTH2
               => /\ Len(last.calls[i].data) = 16
                  /\ Slice(last.calls[i].data, 0, 8) = Idm
                  /\ Slice(last.calls[i].data, 8, 16) = HsChallenge2B


\* C34: a handshake whose AUTH1 response is not exactly 16 bytes long,
\* shorter or longer, fails and does not bring a session that was not
\* authenticated to the authenticated state.
C34_Auth1Length ==
    (/\ last.op = "mutual_authentication"
     /\ Len(last.received) >= 1
     /\ Len(last.received[1]) # 16)
        => /\ last.exc # "ok"
           /\ authenticated => last.pre.authenticated


\* register_area or register_service has just ended after transmitting a
\* command on a session that holds an 8-byte transaction key
TrailerCall ==
    /\ last.op \in {"register_area", "register_service"}
    /\ Len(last.pre.transaction_key) = 8
    /\ Len(last.calls) = 1

\* The envelope plaintext of that command had the trailer been left out and
\* the envelope padding applied: number, transaction id and the first 26
\* bytes of the application payload (code and package), padded
TrailerOmitted ==
    _add_padding(ToBytesLE(last.pre.transaction_number + 1, 2)
                     \o last.pre.transaction_id \o Slice(SentPlain, 8, 34))

HandshakeFailure(s) ==
    mutual_authentication(s, Idm, <<0>>, <<9, 10>>, CardGSK, CardUSK,
        <<11, 12, 13, 14, 15, 16, 17, 18>>,
        Card(CardGSK, CardUSK, <<31, 32, 33, 34, 35, 36, 37, 38>>, 0,
             "bad_1B", "honest")).exc

\* C33: the error an encrypted operation raises when it is attempted on a
\* session that is not authenticated differs from the error with which a
\* handshake on that session fails.
C33_RequiredIsNotFailure ==
    (/\ last.op \notin {"none", "mutual_authentication", "reset_authentication"}
     /\ ~last.pre.authenticated
     /\ last.env # "none")
        => last.exc # HandshakeFailure(last.pre)


\* C35: at every return from authenticate the authenticated flag and the NDEF
\* access methods agree. On a FeliCa Lite tag the flag is true exactly when
\* read_from_ndef_service is read_with_mac, and write_to_ndef_service is
\* always write_without_mac; on a FeliCa Lite-S tag the flag is true exactly
\* when both are the with-MAC methods, and when it is false both are the
\* without-MAC methods.
C35_FlagAgreesWithNdefMethods ==
    lite.op = "authenticate"
        => IF lite.cls = "FelicaLite"
           THEN /\ lite.authenticated
                       <=> (lite.read_from_ndef_service = "read_with_mac")
                /\ lite.read_from_ndef_service
                       \in {"read_with_mac", "read_without_mac"}
                /\ lite.write_to_ndef_service = "write_without_mac"
           ELSE IF lite.authenticated
           THEN /\ lite.read_from_ndef_service = "read_with_mac"
                /\ lite.write_to_ndef_service = "write_with_mac"
           ELSE /\ lite.read_from_ndef_service = "read_without_mac"
                /\ lite.write_to_ndef_service = "write_without_mac"

\* An authentication that failed on a FeliCa Lite tag whose object was
\* authenticated before: the MAC of the ID block did not match
C35_Witness ==
    /\ lite.cls = "FelicaLite"
    /\ lite.op = "authenticate"
    /\ lite.was
    /\ lite.exc = "ok"
    /\ lite.ret = <<0>>
    /\ ~lite.authenticated
    /\ lite.read_from_ndef_service = "read_without_mac"


\* The nesting level of the area at position i of a card: the areas before
\* it whose range of service indexes holds its range
NestingLevel(card, i) ==
    Cardinality({j \in 1..(i - 1) : /\ Len(card[j]) = 2
                                     /\ card[j][1] <= card[i][1]
                                     /\ card[i][2] <= card[j][2]})

\* The definitions of the card that the lines printed so far hold, in order
RECURSIVE Printed(_)
Printed(lines) ==
    IF lines = <<>> THEN <<>>
    ELSE IF lines[1].kind = "Area" THEN <<lines[1].codes>> \o Printed(Tail(lines))
    ELSE [k \in 1..Len(lines[1].codes) |-> <<lines[1].codes[k]>>]
             \o Printed(Tail(lines))

\* The walk stops at the first service index for which the card reports no
\* entry, after flushing the pending overlapped services
WalkStopsAtFirstNone ==
    /\ walk.pc = "walk" => walk.service_index <= Len(walk.card)
    /\ walk.pc = "done" => /\ walk.service_index = Len(walk.card)
                           /\ walk.overlap_services = <<>>
                           /\ Printed(walk.lines) = walk.card

\* C36: the traversal of dump prints every area at an indentation depth
\* equal to its nesting level, so an area that begins after the last service
\* index of the area on top of the stack is printed at the same depth as
\* that sibling, and the walk of a system stops at the first service index
\* without an entry after flushing the pending overlapped services.
C36_AreaDepthIsNestingLevel ==
    /\ \A n \in 1..Len(walk.lines) :
           walk.lines[n].kind = "Area"
               => \E i \in 1..Len(walk.card) :
                      /\ walk.card[i] = walk.lines[n].codes
                      /\ walk.lines[n].depth = NestingLevel(walk.card, i)
    /\ WalkStopsAtFirstNone

=============================================================================
